---------------------------- MODULE Spec2Model ----------------------------
(***************************************************************************)
(* ngx-inference: the request pipeline of the NGINX inference module.      *)
(*                                                                         *)
(* One request travels through the access-phase handler: the BBR stage     *)
(* (src/src/modules/bbr.rs) collects the body and derives the model        *)
(* header, the EPP stage (src/src/epp/mod.rs, src/src/epp/callbacks.rs)    *)
(* dispatches an ext-proc call to a worker task                            *)
(* (src/src/epp/async_processor.rs, src/src/grpc.rs) and polls its oneshot *)
(* channel from a 1 ms timer (check_epp_result).                           *)
(*                                                                         *)
(* Host steps (handlers that NGINX runs on the worker thread) are single   *)
(* atomic actions; the steps of the tokio task are separate actions that   *)
(* interleave freely with them.                                            *)
(***************************************************************************)
EXTENDS Integers, Sequences, FiniteSets, TLC

(***************************************************************************)
(* Bounds of the model                                                     *)
(***************************************************************************)
\* the clock stops advancing at MaxTime milliseconds
MaxTime == 2
\* at most MaxCalls ext-proc calls are dispatched for the request
MaxCalls == 2
\* a body arrives in at most MaxSegs buffers
MaxSegs == 3
\* the server sends at most MaxMsgs responses on a call's stream
MaxMsgs == 2
\* a HeaderMutation sets at most MaxEntries headers
MaxEntries == 2

(***************************************************************************)
(* Program constants                                                       *)
(***************************************************************************)
TIMER_INTERVAL_MS == 1
NGX_HTTP_REQUEST_ENTITY_TOO_LARGE == 413
NGX_HTTP_INTERNAL_SERVER_ERROR == 500
NGX_HTTP_BAD_GATEWAY == 502
NGX_HTTP_GATEWAY_TIME_OUT == 504
\* core::Status::NGX_ERROR handed to the phase engine (finalized as an error)
NGX_ERROR_RC == -1
\* width of usize in the model (the code's usize is 64 bits wide)
UsizeBits == 16
\* bytes one pread asks for at most (the code's chunk is 64 KiB)
FILE_READ_CHUNK_SIZE == 2

DefaultBbrHeader == "X-Gateway-Model-Name"
DefaultEppHeader == "X-Inference-Upstream"

None == [some |-> FALSE, val |-> ""]
Some(v) == [some |-> TRUE, val |-> v]

SetMin(S) == CHOOSE x \in S : \A y \in S : x <= y

(***************************************************************************)
(* Request headers.  A header is a key, a value and whether the value's    *)
(* bytes are valid UTF-8 (NgxStr::to_str succeeds).                        *)
(***************************************************************************)
Header(k, v) == [key |-> k, value |-> v, utf8 |-> TRUE]

\* str::to_ascii_lowercase on the header names that occur
AsciiLower(s) ==
    CASE s = "X-Gateway-Model-Name" -> "x-gateway-model-name"
      [] s = "X-GATEWAY-MODEL-NAME" -> "x-gateway-model-name"
      [] s = "X-Inference-Upstream" -> "x-inference-upstream"
      [] s = "X-INFERENCE-UPSTREAM" -> "x-inference-upstream"
      [] s = "Content-Type"         -> "content-type"
      [] s = "Model"                -> "model"
      [] OTHER -> s

eq_ignore_ascii_case(a, b) == AsciiLower(a) = AsciiLower(b)

\* bbr.rs get_header_in: the first header whose name matches decides; a
\* non-UTF-8 value makes the lookup return None at once
get_header_in(headers, key) ==
    LET m == {i \in 1..Len(headers) : eq_ignore_ascii_case(headers[i].key, key)}
    IN  IF m = {} THEN None
        ELSE IF headers[SetMin(m)].utf8 THEN Some(headers[SetMin(m)].value)
        ELSE None

\* the header is on the request, whatever its value's bytes are
HeaderPresent(headers, key) ==
    \E i \in 1..Len(headers) : eq_ignore_ascii_case(headers[i].key, key)

\* headers_in_iterator filtered by (name.to_str(), value.to_str()) both Ok
collect_headers(headers) == SelectSeq(headers, LAMBDA h : h.utf8)

(***************************************************************************)
(* Request body: a chain of buffers.  A buffer has a memory range          *)
(* (pos..last, its bytes in mem) and optionally a file range               *)
(* (file_pos..file_last on descriptor fd, its bytes in fdata).             *)
(***************************************************************************)
as_usize(x) == x % (2 ^ UsizeBits)

MemBuf(bytes) ==
    [mem |-> bytes, in_file |-> FALSE, file_pos |-> 0, file_last |-> 0,
     fdata |-> << >>, fd_ok |-> TRUE]
FileBuf(bytes) ==
    [mem |-> << >>, in_file |-> TRUE, file_pos |-> 0, file_last |-> Len(bytes),
     fdata |-> bytes, fd_ok |-> TRUE]

Prefix(s, n) == SubSeq(s, 1, IF n < Len(s) THEN n ELSE Len(s))

ChainBytes(chain) ==
    LET RECURSIVE cat(_)
        cat(i) == IF i > Len(chain) THEN << >>
                  ELSE chain[i].mem \o chain[i].fdata \o cat(i + 1)
    IN  cat(1)

\* the chunked pread loop of both collectors: the number of bytes read of a
\* file range of file_size bytes; a pread that returns <= 0 ends the loop
RECURSIVE pread_chunks(_, _, _)
pread_chunks(file_size, bytes_read, pread_ok) ==
    IF bytes_read >= file_size \/ ~pread_ok THEN bytes_read
    ELSE LET rest == file_size - bytes_read
             chunk_size == IF FILE_READ_CHUNK_SIZE < rest
                           THEN FILE_READ_CHUNK_SIZE ELSE rest
         IN  pread_chunks(file_size, bytes_read + chunk_size, pread_ok)

\* bbr.rs read_request_body: Ok(body) or Err(()); status413 is the write to
\* headers_out.status, too_large records that a ceiling check fired.  The
\* length of a file range is the signed difference cast to usize.  When
\* total_read + file_size does not fit a usize the function panics: at the
\* addition in a build with overflow checks, and otherwise, the wrapped sum
\* having passed the ceiling check, at vec![0u8; file_size], whose length
\* is above isize::MAX.
RECURSIVE bbr_read_loop(_, _, _, _, _, _, _)
bbr_read_loop(chain, i, body, total_read, max, allow, pread_ok) ==
    IF i > Len(chain)
    THEN [ok |-> TRUE, body |-> body, status413 |-> FALSE, too_large |-> FALSE,
          panicked |-> FALSE]
    ELSE
    LET b    == chain[i]
        len  == Len(b.mem)
        memOver == len > 0 /\ total_read + len > max
        body1  == IF len > 0 /\ ~memOver THEN body \o b.mem ELSE body
        total1 == IF len > 0 /\ ~memOver THEN total_read + len ELSE total_read
        file_size == as_usize(b.file_last - b.file_pos)
        wraps     == b.in_file /\ file_size > 0 /\ total1 + file_size >= 2 ^ UsizeBits
        fileOver  == b.in_file /\ file_size > 0 /\ as_usize(total1 + file_size) > max
        remaining == max - total1
        bytes_read == IF b.in_file /\ file_size > 0 /\ b.fd_ok
                      THEN pread_chunks(file_size, 0, pread_ok) ELSE 0
        body2  == IF bytes_read > 0 THEN body1 \o Prefix(b.fdata, bytes_read) ELSE body1
        total2 == IF bytes_read > 0 THEN total1 + bytes_read ELSE total1
    IN  IF memOver
        THEN IF ~allow
             THEN [ok |-> FALSE, body |-> body, status413 |-> TRUE, too_large |-> TRUE,
                   panicked |-> FALSE]
             ELSE [ok |-> TRUE,
                   body |-> body \o Prefix(b.mem, max - total_read),
                   status413 |-> FALSE, too_large |-> TRUE, panicked |-> FALSE]
        ELSE IF wraps
        THEN [ok |-> FALSE, body |-> body1, status413 |-> FALSE, too_large |-> FALSE,
              panicked |-> TRUE]
        ELSE IF fileOver
        THEN IF ~allow
             THEN [ok |-> FALSE, body |-> body1, status413 |-> TRUE, too_large |-> TRUE,
                   panicked |-> FALSE]
             ELSE [ok |-> TRUE,
                   body |-> IF remaining > 0 /\ b.fd_ok /\ pread_ok
                            THEN body1 \o Prefix(b.fdata, remaining)
                            ELSE body1,
                   status413 |-> FALSE, too_large |-> TRUE, panicked |-> FALSE]
        ELSE bbr_read_loop(chain, i + 1, body2, total2, max, allow, pread_ok)

\* a collection whose ceiling check fires one byte early
read_request_body_one_early(chain, max, allow, pread_ok) ==
    bbr_read_loop(chain, 1, << >>, 0, max - 1, allow, pread_ok)

\* a collection that reports a failed read of a disk segment as an error
read_request_body_read_error(chain, max, allow, pread_ok) ==
    IF ~pread_ok /\ \E i \in 1..Len(chain) : chain[i].in_file
    THEN [ok |-> FALSE, body |-> << >>, status413 |-> FALSE, too_large |-> FALSE,
          panicked |-> FALSE]
    ELSE bbr_read_loop(chain, 1, << >>, 0, max, allow, pread_ok)

read_request_body(chain, max, allow, pread_ok) ==
    bbr_read_loop(chain, 1, << >>, 0, max, allow, pread_ok)

\* callbacks.rs extract_request_body: Ok(body) or Err(reason)
RECURSIVE epp_read_loop(_, _, _, _, _, _)
epp_read_loop(chain, i, body, total_read, max, pread_ok) ==
    IF i > Len(chain)
    THEN [ok |-> TRUE, body |-> body, err |-> ""]
    ELSE
    LET b    == chain[i]
        len  == Len(b.mem)
        body1  == IF len > 0 THEN body \o b.mem ELSE body
        total1 == IF len > 0 THEN total_read + len ELSE total_read
        file_size == b.file_last - b.file_pos
    IN  IF ~b.in_file
        THEN epp_read_loop(chain, i + 1, body1, total1, max, pread_ok)
        ELSE IF b.file_last < b.file_pos
        THEN [ok |-> FALSE, body |-> body1, err |-> "file has invalid range"]
        ELSE IF file_size > 0 /\ total1 + file_size > max
        THEN [ok |-> FALSE, body |-> body1, err |-> "body too large"]
        ELSE IF file_size > 0 /\ b.fd_ok
        THEN IF pread_chunks(file_size, 0, pread_ok) < file_size
             THEN [ok |-> FALSE, body |-> body1, err |-> "file read error"]
             ELSE epp_read_loop(chain, i + 1, body1 \o Prefix(b.fdata, file_size),
                                total1 + file_size, max, pread_ok)
        ELSE epp_read_loop(chain, i + 1, body1, total1, max, pread_ok)

extract_request_body(present, chain, max, pread_ok) ==
    IF ~present \/ chain = << >>
    THEN [ok |-> TRUE, body |-> << >>, err |-> ""]
    ELSE epp_read_loop(chain, 1, << >>, 0, max, pread_ok)

(***************************************************************************)
(* model_extractor.rs extract_model_from_body.  A body is a sequence of    *)
(* bytes; the bytes that occur are JSON tokens, one token per byte.        *)
(* "\\xFF" is a byte that is not valid UTF-8.                              *)
(***************************************************************************)
StringTokens == {"\"model\"", "\"Model\"", "\"prompt\"", "\"request\"", "\"gpt-4\"",
                 "\"hi\"", "\"\"", "\"   \""}
ScalarTokens == {"1", "true", "null"}
InvalidUtf8  == "\\xFF"

\* the contents of a JSON string token
StrVal(t) ==
    CASE t = "\"model\""  -> "model"
      [] t = "\"Model\""  -> "Model"
      [] t = "\"prompt\"" -> "prompt"
      [] t = "\"gpt-4\""  -> "gpt-4"
      [] t = "\"hi\""     -> "hi"
      [] t = "\"\""       -> ""
      [] t = "\"   \""    -> "   "
      [] t = "\"request\"" -> "request"
      [] OTHER -> t

\* std::str::from_utf8(body).is_ok()
from_utf8_ok(body) == \A i \in 1..Len(body) : body[i] # InvalidUtf8

RECURSIVE SkipWs(_, _)
SkipWs(t, i) == IF i <= Len(t) /\ t[i] = " " THEN SkipWs(t, i + 1) ELSE i

\* a lookup of the key that ignores letter case
is_model_key_ignore_case(k) == AsciiLower(k) = "model"

\* Value::get("model"): the key of the object's map, compared as it is
is_model_key(k) == k = "model"

ParseFail == [ok |-> FALSE, next |-> 0, ty |-> "none", s |-> "",
              has_model |-> FALSE, model_ty |-> "none", model_s |-> ""]
ParsedVal(n, ty, s) == [ok |-> TRUE, next |-> n, ty |-> ty, s |-> s,
                        has_model |-> FALSE, model_ty |-> "none", model_s |-> ""]

\* serde_json::from_str::<Value>: a value starting at byte i.  An object
\* keeps, for the key "model", the type and string of its last binding
\* (serde_json's map insert overwrites earlier bindings of the key).
RECURSIVE ParseValue(_, _), ParseMembers(_, _, _, _, _), ParseElems(_, _)
ParseValue(t, i0) ==
    LET i == SkipWs(t, i0)
    IN  IF i > Len(t) THEN ParseFail
        ELSE IF t[i] \in StringTokens THEN ParsedVal(i + 1, "str", StrVal(t[i]))
        ELSE IF t[i] \in ScalarTokens THEN ParsedVal(i + 1, "other", "")
        ELSE IF t[i] = "{"
        THEN LET j == SkipWs(t, i + 1)
             IN  IF j <= Len(t) /\ t[j] = "}"
                 THEN ParsedVal(j + 1, "obj", "")
                 ELSE ParseMembers(t, j, FALSE, "none", "")
        ELSE IF t[i] = "["
        THEN LET j == SkipWs(t, i + 1)
             IN  IF j <= Len(t) /\ t[j] = "]"
                 THEN ParsedVal(j + 1, "other", "")
                 ELSE ParseElems(t, j)
        ELSE ParseFail

ParseMembers(t, i0, has, mty, ms) ==
    LET i == SkipWs(t, i0)
    IN  IF i > Len(t) \/ t[i] \notin StringTokens THEN ParseFail
        ELSE
        LET c == SkipWs(t, i + 1)
        IN  IF c > Len(t) \/ t[c] # ":" THEN ParseFail
            ELSE
            LET v == ParseValue(t, c + 1)
            IN  IF ~v.ok THEN ParseFail
                ELSE
                LET isModel == is_model_key(StrVal(t[i]))
                    has2 == has \/ isModel
                    mty2 == IF isModel THEN v.ty ELSE mty
                    ms2  == IF isModel THEN v.s ELSE ms
                    e == SkipWs(t, v.next)
                IN  IF e > Len(t) THEN ParseFail
                    ELSE IF t[e] = "," THEN ParseMembers(t, e + 1, has2, mty2, ms2)
                    ELSE IF t[e] = "}"
                    THEN [ok |-> TRUE, next |-> e + 1, ty |-> "obj", s |-> "",
                          has_model |-> has2, model_ty |-> mty2, model_s |-> ms2]
                    ELSE ParseFail

ParseElems(t, i0) ==
    LET v == ParseValue(t, i0)
    IN  IF ~v.ok THEN ParseFail
        ELSE
        LET e == SkipWs(t, v.next)
        IN  IF e > Len(t) THEN ParseFail
            ELSE IF t[e] = "," THEN ParseElems(t, e + 1)
            ELSE IF t[e] = "]" THEN ParsedVal(e + 1, "other", "")
            ELSE ParseFail

\* serde_json::from_str: one value, then only whitespace
serde_json_from_str(t) ==
    LET v == ParseValue(t, 1)
    IN  IF v.ok /\ SkipWs(t, v.next) > Len(t) THEN v ELSE ParseFail

\* an extraction that takes a present but empty model for a missing one
extract_model_nonempty(body) ==
    IF ~from_utf8_ok(body) THEN None
    ELSE LET json == serde_json_from_str(body)
         IN  IF json.ok /\ json.ty = "obj" /\ json.has_model /\ json.model_ty = "str"
                /\ json.model_s # ""
             THEN Some(json.model_s)
             ELSE None

\* an extraction that does not look at the type of the model value
extract_model_any_type(body) ==
    IF ~from_utf8_ok(body) THEN None
    ELSE LET json == serde_json_from_str(body)
         IN  IF json.ok /\ json.ty = "obj" /\ json.has_model
             THEN Some(json.model_s)
             ELSE None

extract_model_from_body(body) ==
    IF ~from_utf8_ok(body) THEN None
    ELSE LET json == serde_json_from_str(body)
         IN  IF json.ok /\ json.ty = "obj" /\ json.has_model /\ json.model_ty = "str"
             THEN Some(json.model_s)
             ELSE None

(***************************************************************************)
(* grpc.rs: ext-proc responses and the search for the target header.       *)
(* A ProcessingResponse has one of seven variants or none (variant         *)
(* "None"); the first four carry the HeaderMutation in a CommonResponse    *)
(* (common), the trailers variants carry it directly and ImmediateResponse *)
(* carries it as its headers.  A set_headers entry is a HeaderValueOption  *)
(* whose header may be absent.                                             *)
(***************************************************************************)
HeaderValueOption(k, v, raw) ==
    [has_header |-> TRUE, key |-> k, value |-> v, raw_value |-> raw]
NoHeaderOption == [has_header |-> FALSE, key |-> "", value |-> "", raw_value |-> ""]

NoMutation == [some |-> FALSE, val |-> << >>]
ProcessingResponse(variant, common, mutation) ==
    [variant |-> variant, common |-> common, mutation |-> mutation]
EmptyResponse == ProcessingResponse("None", FALSE, NoMutation)

\* raw_value bytes: one valid UTF-8 value and one that starts with byte 0xFF
RawValid   == "10.0.0.7:8000"
RawInvalid == "\\xFF0.0.0.8:8000"

\* String::from_utf8_lossy(raw).to_string(): an invalid byte becomes U+FFFD
from_utf8_lossy(raw) ==
    CASE raw = RawInvalid -> "\\uFFFD0.0.0.8:8000"
      [] OTHER -> raw

\* extract_header_from_mutation_async: the for loop over set_headers from
\* entry i on
RECURSIVE scan_set_headers(_, _, _)
scan_set_headers(set_headers, i, target_key_lower) ==
    IF i > Len(set_headers) THEN None
    ELSE LET hvo == set_headers[i]
         IN  IF hvo.has_header /\ eq_ignore_ascii_case(hvo.key, target_key_lower)
             THEN IF hvo.value # "" THEN Some(hvo.value)
                  ELSE IF hvo.raw_value # "" THEN Some(from_utf8_lossy(hvo.raw_value))
                  ELSE scan_set_headers(set_headers, i + 1, target_key_lower)
             ELSE scan_set_headers(set_headers, i + 1, target_key_lower)

\* a scan that stops at the first entry with the target key
extract_header_first_key_only(mutation, target_key_lower) ==
    LET m == {i \in 1..Len(mutation) :
                /\ mutation[i].has_header
                /\ eq_ignore_ascii_case(mutation[i].key, target_key_lower)}
    IN  IF m = {} THEN None
        ELSE scan_set_headers(SubSeq(mutation, 1, SetMin(m)), SetMin(m), target_key_lower)

extract_header_from_mutation_async(mutation, target_key_lower) ==
    scan_set_headers(mutation, 1, target_key_lower)

\* a parser that does not look into an ImmediateResponse
parse_response_without_immediate(resp, target_key_lower) ==
    IF resp.variant \in {"RequestHeaders", "ResponseHeaders", "RequestBody", "ResponseBody"}
    THEN IF resp.common /\ resp.mutation.some
         THEN extract_header_from_mutation_async(resp.mutation.val, target_key_lower)
         ELSE None
    ELSE IF resp.variant \in {"RequestTrailers", "ResponseTrailers"} /\ resp.mutation.some
    THEN extract_header_from_mutation_async(resp.mutation.val, target_key_lower)
    ELSE None

parse_response_for_header_async(resp, target_key_lower) ==
    CASE resp.variant = "RequestHeaders" ->
            IF resp.common /\ resp.mutation.some
            THEN extract_header_from_mutation_async(resp.mutation.val, target_key_lower)
            ELSE None
      [] resp.variant = "ResponseHeaders" ->
            IF resp.common /\ resp.mutation.some
            THEN extract_header_from_mutation_async(resp.mutation.val, target_key_lower)
            ELSE None
      [] resp.variant = "RequestBody" ->
            IF resp.common /\ resp.mutation.some
            THEN extract_header_from_mutation_async(resp.mutation.val, target_key_lower)
            ELSE None
      [] resp.variant = "ResponseBody" ->
            IF resp.common /\ resp.mutation.some
            THEN extract_header_from_mutation_async(resp.mutation.val, target_key_lower)
            ELSE None
      [] resp.variant = "RequestTrailers" ->
            IF resp.mutation.some
            THEN extract_header_from_mutation_async(resp.mutation.val, target_key_lower)
            ELSE None
      [] resp.variant = "ResponseTrailers" ->
            IF resp.mutation.some
            THEN extract_header_from_mutation_async(resp.mutation.val, target_key_lower)
            ELSE None
      [] resp.variant = "ImmediateResponse" ->
            IF resp.mutation.some
            THEN extract_header_from_mutation_async(resp.mutation.val, target_key_lower)
            ELSE None
      [] OTHER -> None

(***************************************************************************)
(* State                                                                   *)
(***************************************************************************)
VARIABLES
    conf,    \* ModuleConfig of the location
    bufs,    \* the buffer chain the host collects for the request body
    r,       \* ngx_http_request_t: the fields the module reads and writes
    calls,   \* per dispatched call: ResultWatcher, timer event, channel, task
    ncalls,  \* number of calls dispatched so far
    now,     \* current_time_ms()
    hist     \* observations of what the handlers did (never read by them)

vars == <<conf, bufs, r, calls, ncalls, now, hist>>

CallIds == 1..MaxCalls

NoCtx == [endpoint |-> "", upstream_header |-> "", timeout_ms |-> 0,
          headers |-> << >>, failure_mode_allow |-> FALSE,
          default_upstream |-> None]
EmptyChan == [st |-> "empty", ok |-> FALSE, val |-> ""]

\* a slot of calls before its call is dispatched
EmptyCall ==
    [watcher |-> "none",        \* "none", "live" (Box::into_raw), "freed"
     start_time_ms |-> 0,
     ctx |-> NoCtx,
     timer_set |-> FALSE,       \* ev->timer_set
     timer_ms |-> 0,            \* the interval of the last ngx_add_timer
     ev_data |-> FALSE,         \* ev->data and ev->handler are set
     eventfd |-> "none",        \* "none", "open", "closed"
     fd |-> 0,                  \* the descriptor number of the eventfd
     foreign_writes |-> 0,      \* writes of other calls' tasks on the eventfd
     frees |-> 0,               \* how often Box::from_raw took the watcher
     chan |-> EmptyChan,        \* oneshot channel: empty, full, taken, closed
     pc |-> "idle",             \* position of the tokio task
     wait_start |-> 0,          \* when the task began to wait for a message
     client |-> "none",         \* what epp_headers_blocking_internal returned
     value |-> "",              \* the v of its Ok(Some(v))
     sent |-> << >>,            \* the requests the client put on the stream
     received |-> 0,            \* responses read from the stream
     none_count |-> 0,          \* responses read that yielded no value
     last_msg |-> EmptyResponse,\* the response read last
     last_parsed |-> None,      \* what the parser returned for it
     stream_end |-> "none",     \* how the exchange ended
     client_timed_out |-> FALSE,\* its tokio::time::timeout elapsed
     send |-> "none",           \* "delivered" or "noop" once the task has sent
     notify |-> "none",         \* where the task's write landed: "open", "ebadf", "reused"
     resolved |-> << >>,        \* the resolutions of the call, in order
     acts |-> 0,                \* resumes and finalizations done for the call
     applied |-> FALSE,         \* the header was set from the call's result
     deref_freed |-> FALSE,     \* check_epp_result read a destroyed request
     del_unset |-> 0,           \* ngx_del_timer calls on a timer not set
     late_fire |-> FALSE]       \* a firing found the request alive, budget exceeded

Inc2(n) == IF n < 2 THEN n + 1 ELSE 2

\* the state the handlers transform
World == [r |-> r, calls |-> calls, ncalls |-> ncalls, hist |-> hist, over |-> FALSE]

bbr_header_name == IF conf.bbr_header_name = "" THEN DefaultBbrHeader
                   ELSE conf.bbr_header_name
epp_header_name == IF conf.epp_header_name = "" THEN DefaultEppHeader
                   ELSE conf.epp_header_name

(***************************************************************************)
(* Host primitives on the request                                          *)
(***************************************************************************)
\* the pipeline's outcome for the request: "continue" or "rejected"
Resolve(w, kind, status) ==
    IF w.r.state = "destroyed"
    THEN [w EXCEPT !.hist.acted_on_freed = TRUE]
    ELSE IF w.r.state \in {"continue", "rejected"}
    THEN [w EXCEPT !.hist.terminals = Inc2(@)]
    ELSE [w EXCEPT !.r.state = kind, !.r.reject_status = status,
                   !.hist.terminals = Inc2(@)]

\* ngx_http_special_response_handler + ngx_http_finalize_request(r, status)
ngx_http_finalize_request(w, status) == Resolve(w, "rejected", status)

\* Request::add_header_in / ngx_list_push on headers_in.headers
add_header_in(w, name, value) ==
    [w EXCEPT !.r.headers_in = Append(@, Header(name, value)),
              !.hist.acted_on_freed = @ \/ w.r.state = "destroyed"]

\* callbacks.rs set_upstream_header; ok is the outcome of its allocations
set_upstream_header(w, name, value, ok) ==
    IF ok THEN add_header_in(w, name, value) ELSE w

Act(w, c) == IF c = 0 THEN w ELSE [w EXCEPT !.calls[c].acts = Inc2(@)]
MarkFail(w, kind) == [w EXCEPT !.hist.epp_failures = @ \cup {kind}]
\* a collector has returned res for the request's buffer chain
Collected(w, stage, res, pread_ok) ==
    [w EXCEPT !.hist.collected = @ \cup
        {[stage |-> stage, ok |-> res.ok, len |-> Len(res.body), pread_ok |-> pread_ok]}]

\* Drop for ResultWatcher (Box::from_raw): the receiver goes, eventfd closes
drop_watcher(w, c) ==
    [w EXCEPT !.calls[c].watcher = "freed",
              !.calls[c].frees = Inc2(@),
              !.calls[c].eventfd = IF @ = "open" THEN "closed" ELSE @]

\* ngx_del_timer(ev)
ngx_del_timer(w, c) ==
    [w EXCEPT !.calls[c].del_unset = IF w.calls[c].timer_set THEN @ ELSE Inc2(@),
              !.calls[c].timer_set = FALSE]

\* ngx_add_timer(ev, timer)
ngx_add_timer(w, c, timer) ==
    [w EXCEPT !.calls[c].timer_set = TRUE, !.calls[c].timer_ms = timer]

RECURSIVE run_phases(_, _)

\* let x = e; F(x): e is evaluated once and F sees its value
Let(S, F(_)) == CHOOSE out \in {F(v) : v \in S} : TRUE

(***************************************************************************)
(* EPP stage: callbacks.rs                                                 *)
(***************************************************************************)
\* handle_epp_failure, for call c (0 when no call was dispatched)
handle_epp_failure(w, c, ctx, status_code, env) ==
    Let({[w EXCEPT !.r.request_body.post_handler =
                       IF w.r.request_body.present THEN "none" ELSE @]},
        LAMBDA w1 :
          IF ctx.failure_mode_allow
          THEN Let({IF ctx.default_upstream.some
                    THEN set_upstream_header(
                             IF env.hdr_ok THEN w1 ELSE MarkFail(w1, "set_default"),
                             ctx.upstream_header, ctx.default_upstream.val,
                             env.hdr_ok)
                    ELSE w1},
                   LAMBDA w2 : run_phases(Act(w2, c), env))
          ELSE ngx_http_finalize_request(Act(w1, c), status_code))

\* process_epp_result
process_epp_result(w, c, result, ctx, env) ==
    IF result.ok
    THEN IF ~env.hdr_ok
         THEN handle_epp_failure(MarkFail(w, "set_header"), c, ctx,
                                 NGX_HTTP_BAD_GATEWAY, env)
         ELSE Let({[set_upstream_header(w, ctx.upstream_header, result.val, TRUE)
                       EXCEPT !.calls[c].applied = TRUE]},
                  LAMBDA w1 : run_phases(Act(w1, c), env))
    ELSE handle_epp_failure(MarkFail(w, result.val), c, ctx, NGX_HTTP_BAD_GATEWAY, env)

\* the branch of check_epp_result taken when the request is gone
TeardownPath(w, c) ==
    Let({drop_watcher(ngx_del_timer(w, c), c)},
        LAMBDA w1 : [w1 EXCEPT !.calls[c].resolved = Append(@, "cancel")])

\* a timeout branch that reports the failure and keeps the watcher polling
TimeoutPathKeepsPolling(w, c, env) ==
    Let({[w EXCEPT !.calls[c].resolved = Append(@, "timeout"),
                   !.calls[c].timer_set = TRUE]},
        LAMBDA w2 : handle_epp_failure(MarkFail(w2, "timeout"), c, w.calls[c].ctx,
                                       NGX_HTTP_GATEWAY_TIME_OUT, env))

\* the branch of check_epp_result taken when is_timed_out()
TimeoutPath(w, c, env) ==
    Let({drop_watcher(ngx_del_timer(w, c), c)}, LAMBDA w1 :
    Let({[w1 EXCEPT !.calls[c].resolved = Append(@, "timeout")]}, LAMBDA w2 :
        handle_epp_failure(MarkFail(w2, "timeout"), c, w.calls[c].ctx,
                           NGX_HTTP_GATEWAY_TIME_OUT, env)))

\* a result branch that applies the result and leaves the timer armed
ResultPathKeepsTimer(w, c, env) ==
    Let({[w EXCEPT !.calls[c].resolved = Append(@, "result"),
                   !.calls[c].timer_set = TRUE]},
        LAMBDA w3 : process_epp_result(w3, c, w.calls[c].chan, w.calls[c].ctx, env))

\* the branch of check_epp_result taken when try_recv returns Ok(result)
ResultPath(w, c, env) ==
    Let({[w EXCEPT !.calls[c].chan.st = "taken",
                   !.calls[c].ev_data = FALSE]}, LAMBDA w1 :
    Let({drop_watcher(w1, c)}, LAMBDA w2 :
    Let({[w2 EXCEPT !.calls[c].resolved = Append(@, "result")]}, LAMBDA w3 :
        process_epp_result(w3, c, w.calls[c].chan, w.calls[c].ctx, env))))

\* an Empty branch that backs off to a longer poll interval
EmptyPathBacksOff(w, c) == ngx_add_timer(w, c, 2 * TIMER_INTERVAL_MS)

\* the branch taken when try_recv returns Empty
EmptyPath(w, c) == ngx_add_timer(w, c, TIMER_INTERVAL_MS)

\* a Closed branch that reports the dropped sender as a timeout
ClosedPathGatewayTimeout(w, c, env) ==
    Let({drop_watcher(ngx_del_timer(w, c), c)}, LAMBDA w1 :
    Let({[w1 EXCEPT !.calls[c].resolved = Append(@, "result")]}, LAMBDA w2 :
        handle_epp_failure(MarkFail(w2, "closed"), c, w.calls[c].ctx,
                           NGX_HTTP_GATEWAY_TIME_OUT, env)))

\* the branch taken when try_recv returns Closed
ClosedPath(w, c, env) ==
    Let({drop_watcher(ngx_del_timer(w, c), c)}, LAMBDA w1 :
    Let({[w1 EXCEPT !.calls[c].resolved = Append(@, "result")]}, LAMBDA w2 :
        handle_epp_failure(MarkFail(w2, "closed"), c, w.calls[c].ctx,
                           NGX_HTTP_BAD_GATEWAY, env)))

\* a budget check that allows one more millisecond
is_timed_out_lenient(call) ==
    now - call.start_time_ms > call.ctx.timeout_ms + 1

\* ResultWatcher::is_timed_out
is_timed_out(call) ==
    LET d == now - call.start_time_ms
        elapsed_ms == IF d < 0 THEN 0 ELSE d
    IN  elapsed_ms > call.ctx.timeout_ms

\* a handler that looks into the channel before it looks at the clock
check_epp_result_channel_first(w0, c, env) ==
    LET gone       == w0.r.state = "destroyed"
        conn_null  == gone /\ env.conn_null
        count_zero == gone /\ env.count_zero
        ev_freed   == w0.r.connection = "closed"
    IN  IF ~w0.calls[c].ev_data \/ (ev_freed /\ env.data_null)
        THEN [w0 EXCEPT !.calls[c].timer_set = FALSE,
                        !.hist.fired_on_freed_event = @ \/ ev_freed]
        ELSE
        Let({[w0 EXCEPT !.calls[c].timer_set = FALSE,
                        !.hist.fired_on_freed_event = @ \/ ev_freed,
                        !.calls[c].deref_freed = @ \/ gone,
                        !.calls[c].late_fire =
                            @ \/ (~gone /\ now - w0.calls[c].start_time_ms
                                               > w0.calls[c].ctx.timeout_ms)]},
            LAMBDA w :
              IF conn_null \/ count_zero THEN TeardownPath(w, c)
              ELSE IF w.calls[c].chan.st = "full" THEN ResultPath(w, c, env)
              ELSE IF is_timed_out(w.calls[c]) THEN TimeoutPath(w, c, env)
              ELSE IF w.calls[c].chan.st = "empty" THEN EmptyPath(w, c)
              ELSE ClosedPath(w, c, env))

\* check_epp_result, the handler of call c's timer event.  The host has
\* taken the event out of the timer tree before it calls the handler.  A
\* read of a destroyed request's connection and count yields whatever the
\* freed memory holds: env.conn_null and env.count_zero.  Nothing takes the
\* event out of the timer tree when its connection pool is destroyed, so the
\* handler may run on a freed event, whose data is then whatever the memory
\* holds: env.data_null.
check_epp_result(w0, c, env) ==
    LET gone       == w0.r.state = "destroyed"
        conn_null  == gone /\ env.conn_null
        count_zero == gone /\ env.count_zero
        ev_freed   == w0.r.connection = "closed"
    IN  IF ~w0.calls[c].ev_data \/ (ev_freed /\ env.data_null)
        THEN [w0 EXCEPT !.calls[c].timer_set = FALSE,
                        !.hist.fired_on_freed_event = @ \/ ev_freed]
        ELSE
        Let({[w0 EXCEPT !.calls[c].timer_set = FALSE,
                        !.hist.fired_on_freed_event = @ \/ ev_freed,
                        !.calls[c].deref_freed = @ \/ gone,
                        !.calls[c].late_fire =
                            @ \/ (~gone /\ now - w0.calls[c].start_time_ms
                                               > w0.calls[c].ctx.timeout_ms)]},
            LAMBDA w :
              IF conn_null \/ count_zero THEN TeardownPath(w, c)
              ELSE IF is_timed_out(w.calls[c]) THEN TimeoutPath(w, c, env)
              ELSE IF w.calls[c].chan.st = "full" THEN ResultPath(w, c, env)
              ELSE IF w.calls[c].chan.st = "empty" THEN EmptyPath(w, c)
              ELSE ClosedPath(w, c, env))

\* setup_result_timer: ok is the outcome of the allocation from the
\* connection pool
setup_result_timer(w, c, ok) ==
    IF ok THEN [ngx_add_timer(w, c, TIMER_INTERVAL_MS) EXCEPT !.calls[c].ev_data = TRUE]
    ELSE w

\* eventfd(): the kernel hands out the lowest descriptor number not in use
LowestFree(cs) ==
    CHOOSE n \in 1..(MaxCalls + 1) :
        /\ \A x \in CallIds : cs[x].eventfd = "open" => cs[x].fd # n
        /\ \A m \in 1..(n - 1) : \E x \in CallIds : cs[x].eventfd = "open" /\ cs[x].fd = m

\* a dispatch that runs the exchange on the host thread before it returns
spawn_and_block(w, ctx) ==
    IF w.ncalls >= MaxCalls THEN [w EXCEPT !.over = TRUE]
    ELSE LET c == w.ncalls + 1
         IN  [w EXCEPT !.ncalls = c,
                       !.calls[c] = [EmptyCall EXCEPT !.watcher = "live",
                                                      !.start_time_ms = now,
                                                      !.ctx = ctx,
                                                      !.eventfd = "open",
                                                      !.fd = LowestFree(w.calls),
                                                      !.client = "None",
                                                      !.chan = [st |-> "full", ok |-> FALSE,
                                                                val |-> "novalue"],
                                                      !.send = "delivered",
                                                      !.notify = "open",
                                                      !.pc = "done"]]

\* oneshot::channel, spawn_epp_task and ResultWatcher::new
spawn_and_watch(w, ctx) ==
    IF w.ncalls >= MaxCalls THEN [w EXCEPT !.over = TRUE]
    ELSE LET c == w.ncalls + 1
         IN  [w EXCEPT !.ncalls = c,
                       !.calls[c] = [EmptyCall EXCEPT !.watcher = "live",
                                                      !.start_time_ms = now,
                                                      !.ctx = ctx,
                                                      !.eventfd = "open",
                                                      !.fd = LowestFree(w.calls),
                                                      !.pc = "connecting"]]

\* AsyncEppContext built from the configuration and the request's headers
make_ctx(w) ==
    [endpoint |-> conf.epp_endpoint.val,
     upstream_header |-> epp_header_name,
     timeout_ms |-> conf.epp_timeout_ms,
     headers |-> collect_headers(w.r.headers_in),
     failure_mode_allow |-> conf.epp_failure_mode_allow,
     default_upstream |-> conf.default_upstream]

\* process_with_existing_body
process_with_existing_body(w, ctx, env) ==
    Let({extract_request_body(w.r.request_body.present, bufs,
                              conf.max_body_size, env.pread_ok)},
        LAMBDA body :
          IF ~body.ok
          THEN [w |-> MarkFail(Collected(w, "epp", body, env.pread_ok), "extract"),
                status |-> IF ctx.failure_mode_allow THEN "NGX_DECLINED"
                           ELSE "NGX_ERROR"]
          ELSE Let({spawn_and_watch(Collected(w, "epp", body, env.pread_ok), ctx)},
                   LAMBDA w1 :
               IF w1.over THEN [w |-> w1, status |-> "NGX_DONE"]
               ELSE IF ~env.timer_ok
               THEN [w |-> MarkFail(drop_watcher(w1, w1.ncalls), "timer"),
                     status |-> "NGX_ERROR"]
               ELSE [w |-> setup_result_timer(w1, w1.ncalls, TRUE),
                     status |-> "NGX_DONE"]))

\* body_read_done, the post_handler of the EPP stage's body read
body_read_done(w, env) ==
    IF ~conf.epp_endpoint.some \/ conf.epp_endpoint.val = "" THEN w
    ELSE
    Let({make_ctx(w)}, LAMBDA ctx :
    Let({extract_request_body(w.r.request_body.present, bufs,
                              conf.max_body_size, env.pread_ok)},
        LAMBDA body :
          IF ~body.ok
          THEN handle_epp_failure(
                   MarkFail(Collected(w, "epp", body, env.pread_ok), "extract"),
                   0, ctx, NGX_HTTP_BAD_GATEWAY, env)
          ELSE Let({spawn_and_watch(Collected(w, "epp", body, env.pread_ok), ctx)},
                   LAMBDA w1 :
               IF w1.over THEN w1
               ELSE IF ~env.timer_ok
               THEN handle_epp_failure(MarkFail(drop_watcher(w1, w1.ncalls), "timer"),
                                       0, ctx, NGX_HTTP_BAD_GATEWAY, env)
               ELSE setup_result_timer(w1, w1.ncalls, TRUE))))

\* read_body_async: ngx_http_read_client_request_body(r, body_read_done) on
\* a request whose body has not been read; env.read_rc is the host's answer
read_body_async(w, env) ==
    IF env.read_rc = "ERROR"
    THEN [w |-> MarkFail(w, "body_read"), status |-> "NGX_ERROR"]
    ELSE
    Let({[w EXCEPT !.r.request_body =
             [present |-> TRUE,
              rest |-> IF env.read_rc = "NGX_AGAIN" THEN 1 ELSE 0,
              post_handler |-> "epp"]]},
        LAMBDA w1 :
          IF env.read_rc = "NGX_AGAIN"
          THEN [w |-> w1, status |-> "NGX_DONE"]
          ELSE [w |-> body_read_done(w1, env), status |-> "NGX_DONE"])

LogEntry(w, stage, w0, status) ==
    [w EXCEPT !.hist.entries = @ \cup
        {[stage |-> stage,
          present |-> HeaderPresent(w0.r.headers_in,
                                    IF stage = "bbr" THEN bbr_header_name
                                    ELSE epp_header_name),
          worked |-> IF stage = "bbr" THEN w.hist.bbr_reads # w0.hist.bbr_reads
                     ELSE w.ncalls # w0.ncalls \/ w.hist.epp_reads # w0.hist.epp_reads,
          same_headers |-> w.r.headers_in = w0.r.headers_in,
          status |-> status]}]

\* a stage that does not look at the response status
EppProcessor_process_request_ignores_status(w0, env) ==
    Let({[w0 EXCEPT !.hist.epp_after_bbr = @ \/ w0.hist.bbr_set_header]}, LAMBDA w :
    Let({IF ~conf.epp_enable THEN [w |-> w0, status |-> "NGX_DECLINED"]
         ELSE IF ~conf.epp_endpoint.some \/ conf.epp_endpoint.val = ""
         THEN [w |-> w, status |-> "NGX_DECLINED"]
         ELSE IF get_header_in(w.r.headers_in, epp_header_name).some
         THEN [w |-> w, status |-> "NGX_DECLINED"]
         ELSE IF w.r.request_body.present
         THEN IF w.r.request_body.rest = 0
              THEN Let({make_ctx(w)},
                       LAMBDA ctx : process_with_existing_body(w, ctx, env))
              ELSE [w |-> w, status |-> "NGX_DECLINED"]
         ELSE Let({[w EXCEPT !.hist.epp_reads = Inc2(@)]},
                  LAMBDA w1 : read_body_async(w1, env))},
        LAMBDA res :
          [w |-> LogEntry(res.w, "epp", w0, res.status), status |-> res.status]))

\* a stage that starts its own body read over a read in progress
EppProcessor_process_request_reads_again(w0, env) ==
    Let({[w0 EXCEPT !.hist.epp_after_bbr = @ \/ w0.hist.bbr_set_header]}, LAMBDA w :
    Let({IF ~conf.epp_enable THEN [w |-> w0, status |-> "NGX_DECLINED"]
         ELSE IF ~conf.epp_endpoint.some \/ conf.epp_endpoint.val = ""
         THEN [w |-> w, status |-> "NGX_DECLINED"]
         ELSE IF get_header_in(w.r.headers_in, epp_header_name).some
         THEN [w |-> w, status |-> "NGX_DECLINED"]
         ELSE IF w.r.headers_out_status >= 300
         THEN [w |-> w, status |-> "NGX_DECLINED"]
         ELSE IF w.r.request_body.present /\ w.r.request_body.rest = 0
         THEN Let({make_ctx(w)},
                  LAMBDA ctx : process_with_existing_body(w, ctx, env))
         ELSE Let({[w EXCEPT !.hist.epp_reads = Inc2(@)]},
                  LAMBDA w1 : read_body_async(w1, env))},
        LAMBDA res :
          [w |-> LogEntry(res.w, "epp", w0, res.status), status |-> res.status]))

\* epp/mod.rs EppProcessor::process_request
EppProcessor_process_request(w0, env) ==
    Let({[w0 EXCEPT !.hist.epp_after_bbr = @ \/ w0.hist.bbr_set_header]}, LAMBDA w :
    Let({IF ~conf.epp_enable THEN [w |-> w0, status |-> "NGX_DECLINED"]
         ELSE IF ~conf.epp_endpoint.some \/ conf.epp_endpoint.val = ""
         THEN [w |-> w, status |-> "NGX_DECLINED"]
         ELSE IF get_header_in(w.r.headers_in, epp_header_name).some
         THEN [w |-> w, status |-> "NGX_DECLINED"]
         ELSE IF w.r.headers_out_status >= 300
         THEN [w |-> w, status |-> "NGX_DECLINED"]
         ELSE IF w.r.request_body.present
         THEN IF w.r.request_body.rest = 0
              THEN Let({make_ctx(w)},
                       LAMBDA ctx : process_with_existing_body(w, ctx, env))
              ELSE [w |-> w, status |-> "NGX_DECLINED"]
         ELSE Let({[w EXCEPT !.hist.epp_reads = Inc2(@)]},
                  LAMBDA w1 : read_body_async(w1, env))},
        LAMBDA res :
          [w |-> LogEntry(res.w, "epp", w0, res.status), status |-> res.status]))

(***************************************************************************)
(* BBR stage: modules/bbr.rs                                               *)
(***************************************************************************)
\* a panic inside an extern "C" handler: the worker process aborts, and
\* the request with it
panic_in_handler(w) ==
    [w EXCEPT !.r.state = "aborted", !.hist.bbr_panicked = TRUE]

\* bbr_body_read_handler, the post_handler of the BBR stage's body read
bbr_body_read_handler(w, env) ==
    IF ~w.r.request_body.present THEN w
    ELSE IF w.r.request_body.rest > 0 THEN w
    ELSE IF get_header_in(w.r.headers_in, bbr_header_name).some THEN w
    ELSE
    Let({read_request_body(bufs, conf.bbr_max_body_size,
                           conf.bbr_failure_mode_allow, env.pread_ok)}, LAMBDA body :
    Let({[w EXCEPT !.r.request_body.post_handler = "none",
                   !.r.headers_out_status =
                       IF body.status413 THEN NGX_HTTP_REQUEST_ENTITY_TOO_LARGE ELSE @,
                   !.hist.bbr_too_large = @ \/ body.too_large,
                   !.hist.collected = Collected(w, "bbr", body, env.pread_ok).hist.collected]},
        LAMBDA w1 :
        IF body.panicked THEN panic_in_handler(w1)
        ELSE IF ~body.ok
        THEN IF conf.bbr_failure_mode_allow THEN w1
             ELSE IF w1.r.headers_out_status = NGX_HTTP_REQUEST_ENTITY_TOO_LARGE
             THEN ngx_http_finalize_request(w1, NGX_HTTP_REQUEST_ENTITY_TOO_LARGE)
             ELSE ngx_http_finalize_request(
                      [w1 EXCEPT !.r.headers_out_status = NGX_HTTP_INTERNAL_SERVER_ERROR],
                      NGX_HTTP_INTERNAL_SERVER_ERROR)
        ELSE IF body.body = << >> THEN w1
        ELSE
        Let({extract_model_from_body(body.body)}, LAMBDA model :
        Let({[w1 EXCEPT !.hist.extract_ran = TRUE,
                        !.hist.extracted_from = body.body,
                        !.hist.extracted = model]}, LAMBDA w2 :
        Let({IF ~env.hdr_ok THEN [w2 EXCEPT !.hist.bbr_hdr_failed = TRUE]
             ELSE [add_header_in(w2, bbr_header_name,
                                 IF model.some THEN model.val
                                 ELSE conf.bbr_default_model)
                      EXCEPT !.hist.bbr_set_header = TRUE]}, LAMBDA w3 :
        Let({[w3 EXCEPT !.r.phase_handler = @ + 1]}, LAMBDA w4 :
            run_phases(w4, env)))))))

\* BbrProcessor::start_body_reading: ngx_http_read_client_request_body(r,
\* bbr_body_read_handler).  The host calls the handler at once when the
\* request already has a body structure or the body is already buffered.
start_body_reading(w0, env) ==
    Let({[w0 EXCEPT !.hist.bbr_reads = Inc2(@)]}, LAMBDA w :
        IF w.r.request_body.present
        THEN [w |-> bbr_body_read_handler(w, env), status |-> "NGX_DONE"]
        ELSE IF env.read_rc = "ERROR"
        THEN [w |-> w,
              status |-> IF conf.bbr_failure_mode_allow THEN "NGX_DECLINED"
                         ELSE "NGX_ERROR"]
        ELSE IF env.read_rc = "NGX_AGAIN"
        THEN [w |-> [w EXCEPT !.r.request_body =
                        [present |-> TRUE, rest |-> 1, post_handler |-> "bbr"]],
              status |-> "NGX_DONE"]
        ELSE Let({[w EXCEPT !.r.request_body =
                      [present |-> TRUE, rest |-> 0, post_handler |-> "bbr"]]},
                 LAMBDA w1 :
                   [w |-> bbr_body_read_handler(w1, env), status |-> "NGX_DONE"]))

\* BbrProcessor::process_request
BbrProcessor_process_request(w0, env) ==
    Let({IF ~conf.bbr_enable THEN [w |-> w0, status |-> "NGX_DECLINED"]
         ELSE IF get_header_in(w0.r.headers_in, bbr_header_name).some
         THEN [w |-> w0, status |-> "NGX_DECLINED"]
         ELSE start_body_reading(w0, env)},
        LAMBDA res :
          [w |-> LogEntry(res.w, "bbr", w0, res.status), status |-> res.status])

(***************************************************************************)
(* The access-phase handler and the phase engine                           *)
(***************************************************************************)
\* what the phase engine does with the handler's return value; a request a
\* nested callback has already resolved or suspended is left as it is
PhaseReturn(w, status) ==
    IF w.r.state # "running" THEN w
    ELSE IF status = "NGX_DONE" THEN [w EXCEPT !.r.state = "suspended"]
    ELSE IF status = "NGX_DECLINED" THEN Resolve(w, "continue", 0)
    ELSE Resolve(w, "rejected", NGX_ERROR_RC)

\* inference_access_handler: stage 1 BBR, then stage 2 EPP; a stage that
\* does not decline ends the handler with its status
inference_access_handler(w, env) ==
    Let({BbrProcessor_process_request(w, env)}, LAMBDA bbr :
        IF bbr.status # "NGX_DECLINED" THEN PhaseReturn(bbr.w, bbr.status)
        ELSE Let({EppProcessor_process_request(bbr.w, env)},
                 LAMBDA epp : PhaseReturn(epp.w, epp.status)))

\* ngx_http_core_run_phases(r): the engine runs the handler at
\* r->phase_handler; the handlers after ours let the request continue
run_phases(w, env) ==
    IF w.r.state = "destroyed" THEN [w EXCEPT !.hist.acted_on_freed = TRUE]
    ELSE IF w.r.state \in {"continue", "rejected"}
    THEN [w EXCEPT !.hist.terminals = Inc2(@)]
    ELSE IF w.r.phase_handler = 0
    THEN Let({[w EXCEPT !.r.state = "running"]},
             LAMBDA w1 : inference_access_handler(w1, env))
    ELSE Resolve(w, "continue", 0)

(***************************************************************************)
(* Initial states: a configuration, a request and its body                 *)
(***************************************************************************)
UpstreamValue   == "10.0.0.5:8000"
DefaultUpstream == "fallback:8000"
EppEndpoint     == "epp:9001"
\* an endpoint whose server may answer with any response of AllResponses
AnyEndpoint     == "epp-any:9001"

\* the response of the spec's scenario 3
ValueResponse ==
    ProcessingResponse("RequestHeaders", TRUE,
        Some(<<HeaderValueOption("x-inference-upstream", UpstreamValue, "")>>))

\* set_headers entries: the target key in two spellings, with a textual
\* value, with a raw value only (valid and invalid UTF-8), with both, with
\* neither; another key; an entry without header
SetEntries ==
    { HeaderValueOption("x-inference-upstream", "10.0.0.6:8000", ""),
      HeaderValueOption("X-INFERENCE-UPSTREAM", UpstreamValue, RawValid),
      HeaderValueOption("x-inference-upstream", "", RawValid),
      HeaderValueOption("x-inference-upstream", "", RawInvalid),
      HeaderValueOption("X-Inference-Upstream", "", ""),
      HeaderValueOption("Content-Type", "text/plain", ""),
      NoHeaderOption }

RECURSIVE Mutations(_)
Mutations(n) ==
    IF n = 0 THEN {<< >>}
    ELSE Mutations(n - 1) \cup
         { Append(m, e) : m \in {x \in Mutations(n - 1) : Len(x) = n - 1},
                          e \in SetEntries }

Variants == {"RequestHeaders", "ResponseHeaders", "RequestBody", "ResponseBody",
             "RequestTrailers", "ResponseTrailers", "ImmediateResponse"}

\* every mutation under RequestHeaders; under every variant two mutations,
\* a missing mutation and a missing common response; the empty response
AllResponses ==
    { ProcessingResponse("RequestHeaders", TRUE, Some(m)) : m \in Mutations(MaxEntries) }
    \cup
    { ProcessingResponse(v, c, m) :
        v \in Variants, c \in BOOLEAN,
        m \in {NoMutation,
               Some(<<HeaderValueOption("x-inference-upstream", "10.0.0.6:8000", "")>>),
               Some(<<HeaderValueOption("X-Inference-Upstream", "", ""),
                      HeaderValueOption("x-inference-upstream", "", RawInvalid)>>)} }
    \cup {EmptyResponse}

JsonModel   == <<"{", "\"model\"", ":", "\"gpt-4\"", "}">>
JsonNoModel == <<"{", "\"prompt\"", ":", "\"hi\"", "}">>

BodyChains ==
    { << >>,
      <<MemBuf(JsonModel)>>,
      <<MemBuf(SubSeq(JsonModel, 1, 2)), FileBuf(SubSeq(JsonModel, 3, 5))>>,
      <<FileBuf(JsonModel)>>,
      <<MemBuf(JsonNoModel)>> }

CeilingChoices == {3, 5}
TimeoutChoices == {1}

ModelHeader       == <<Header("X-GATEWAY-MODEL-NAME", "gpt-4")>>
ModelHeaderRaw    == <<[key |-> "X-Gateway-Model-Name", value |-> "\\xFF", utf8 |-> FALSE]>>
UpstreamHeader    == <<Header("X-INFERENCE-UPSTREAM", "10.0.0.9:8000")>>
UpstreamHeaderRaw == <<[key |-> "X-Inference-Upstream", value |-> "\\xFF", utf8 |-> FALSE]>>

\* ModuleConfig after merge: empty header names and a zero timeout have been
\* replaced by their defaults
ConfWith(bbr, bbr_allow, epp, endpoint, epp_allow, dflt, max, t) ==
    [bbr_enable |-> bbr, bbr_failure_mode_allow |-> bbr_allow,
     bbr_max_body_size |-> max, max_body_size |-> max,
     bbr_header_name |-> DefaultBbrHeader, bbr_default_model |-> "unknown",
     epp_enable |-> epp, epp_endpoint |-> endpoint, epp_timeout_ms |-> t,
     epp_failure_mode_allow |-> epp_allow, epp_header_name |-> DefaultEppHeader,
     default_upstream |-> dflt]

Scenario(c, b, h, pre) == [conf |-> c, bufs |-> b, headers |-> h, pre |-> pre]

Defaults == {None, Some(DefaultUpstream)}

\* the EPP stage alone, a request without headers and without body
BridgeScenarios ==
    { Scenario(ConfWith(FALSE, FALSE, TRUE, Some(EppEndpoint), a, d, 5, t),
               << >>, << >>, FALSE) :
        a \in BOOLEAN, d \in Defaults, t \in TimeoutChoices }

\* the BBR stage alone, over every body, ceiling and model header
BbrScenarios ==
    { Scenario(ConfWith(TRUE, a, FALSE, None, FALSE, None, m, 1), b, h, pre) :
        a \in BOOLEAN, m \in CeilingChoices, b \in BodyChains,
        h \in {<< >>, ModelHeader, ModelHeaderRaw}, pre \in BOOLEAN }

\* the EPP stage alone, over bodies held in files and upstream headers
EppScenarios ==
    { Scenario(ConfWith(FALSE, FALSE, TRUE, Some(EppEndpoint), a, d, m, 1),
               b, << >>, pre) :
        a \in BOOLEAN, d \in Defaults, m \in CeilingChoices,
        b \in {<< >>, <<FileBuf(JsonModel)>>}, pre \in BOOLEAN }
    \cup
    { Scenario(ConfWith(FALSE, FALSE, TRUE, Some(EppEndpoint), a, d, 5, 1),
               << >>, h, FALSE) :
        a \in BOOLEAN, d \in Defaults, h \in {UpstreamHeader, UpstreamHeaderRaw} }
    \cup
    { Scenario(ConfWith(FALSE, FALSE, e, None, FALSE, None, 5, 1), << >>, << >>, FALSE) :
        e \in BOOLEAN }

\* both stages
BothScenarios ==
    { Scenario(ConfWith(TRUE, ba, TRUE, Some(EppEndpoint), a, d, 5, 1), b, h, FALSE) :
        ba \in BOOLEAN, a \in BOOLEAN, d \in Defaults,
        b \in {<< >>, <<MemBuf(JsonModel)>>}, h \in {<< >>} }
    \cup
    { Scenario(ConfWith(TRUE, FALSE, TRUE, Some(EppEndpoint), a, d, 5, 1),
               <<MemBuf(JsonModel)>>, ModelHeader, FALSE) :
        a \in BOOLEAN, d \in Defaults }

\* every split of bytes into at most k buffers, each held in memory or in
\* a temporary file
RECURSIVE Splits(_, _)
Splits(bytes, k) ==
    IF bytes = << >> THEN {<< >>}
    ELSE IF k = 0 THEN {}
    ELSE UNION { { <<seg>> \o rest :
                     seg \in {MemBuf(Prefix(bytes, n)), FileBuf(Prefix(bytes, n))},
                     rest \in Splits(SubSeq(bytes, n + 1, Len(bytes)), k - 1) } :
                 n \in 1..Len(bytes) }

\* the BBR stage alone over every split of every prefix of a body and every
\* ceiling around its length
SplitScenarios ==
    { Scenario(ConfWith(TRUE, a, FALSE, None, FALSE, None, m, 1), b, << >>, pre) :
        a \in BOOLEAN, m \in 1..Len(JsonModel),
        b \in UNION { Splits(Prefix(JsonModel, l), MaxSegs) : l \in 1..Len(JsonModel) },
        pre \in BOOLEAN }

\* the EPP stage alone on a body an earlier handler has read into memory
EppMemoryScenarios ==
    { Scenario(ConfWith(FALSE, FALSE, TRUE, Some(EppEndpoint), FALSE, None, m, 1),
               <<MemBuf(JsonModel)>>, << >>, TRUE) : m \in {3, 5} }

\* the EPP stage alone against a server that may send any response
ParseScenarios ==
    { Scenario(ConfWith(FALSE, FALSE, TRUE, Some(AnyEndpoint), FALSE, None, 5, 1),
               << >>, h, FALSE) :
        h \in {<< >>, <<Header("Content-Type", "text/plain"), Header("Accept", "*/*")>>} }

\* JSON bodies for the extraction, each with its kind and, for a string
\* model, the string: objects with a top-level "model" of every JSON type,
\* alone or with another member before or after it; objects without the
\* key (another spelling, a nested "model"); values that are not objects;
\* malformed texts; texts with a byte that is not UTF-8; texts with
\* whitespace between the tokens
MaxBodyTokens == 16

Member(k, v) == <<k, ":">> \o v
Obj1(m) == <<"{">> \o m \o <<"}">>
Obj2(m1, m2) == <<"{">> \o m1 \o <<",">> \o m2 \o <<"}">>
NestedModel == <<"{", "\"model\"", ":", "\"gpt-4\"", "}">>

StringValues == {<<"\"gpt-4\"">>, <<"\"\"">>, <<"\"   \"">>}
NonStringValues == {<<"null">>, <<"1">>, <<"true">>, <<"[", "\"gpt-4\"", "]">>,
                    NestedModel, <<"{", "}">>}
OtherMembers == {Member("\"prompt\"", <<"\"hi\"">>),
                 Member("\"Model\"", <<"\"gpt-4\"">>),
                 Member("\"request\"", NestedModel)}

WithOthers(m) ==
    {Obj1(m)} \cup {Obj2(o, m) : o \in OtherMembers}
              \cup {Obj2(m, o) : o \in OtherMembers}

ExtractCase(b, class, val) == [body |-> b, class |-> class, val |-> val]

StringCases ==
    UNION { { ExtractCase(b, "string", StrVal(v[1])) :
                b \in WithOthers(Member("\"model\"", v)) } : v \in StringValues }
NonStringCases ==
    UNION { { ExtractCase(b, "nonstring", "") :
                b \in WithOthers(Member("\"model\"", v)) } : v \in NonStringValues }
NoModelCases ==
    { ExtractCase(b, "nomodel", "") :
        b \in {<<"{", "}">>, <<"null">>, <<"1">>, <<"\"model\"">>,
               <<"[", "\"model\"", "]">>}
              \cup {Obj1(o) : o \in OtherMembers}
              \cup {Obj2(o1, o2) : o1 \in OtherMembers, o2 \in OtherMembers} }
ValidCases == StringCases \cup NonStringCases \cup NoModelCases
MalformedCases ==
    { ExtractCase(Prefix(c.body, n), "malformed", "") :
        c \in {x \in ValidCases : Len(x.body) >= 2}, n \in 1..4 }
    \cup { ExtractCase(c.body \o <<"}">>, "malformed", "") : c \in ValidCases }
    \cup { ExtractCase(Obj2(Member("\"model\"", <<"\"gpt-4\"">>), <<"\"prompt\"", ":">>),
                       "malformed", "") }
NonUtf8Cases ==
    UNION { { ExtractCase([c.body EXCEPT ![i] = InvalidUtf8], "nonutf8", "") :
                i \in 1..Len(c.body) } : c \in StringCases }
    \cup { ExtractCase(c.body \o <<InvalidUtf8>>, "nonutf8", "") : c \in StringCases }
WhitespaceCases ==
    { ExtractCase(<<" ", "{", " ", "\"model\"", " ", ":", " ">> \o v \o <<" ", "}", " ">>,
                  "string", StrVal(v[1])) : v \in StringValues }
ExtractCases == ValidCases \cup MalformedCases \cup NonUtf8Cases \cup WhitespaceCases

\* the BBR stage alone on every such body, and one EPP request
ExtractScenarios ==
    { Scenario(ConfWith(TRUE, FALSE, FALSE, None, FALSE, None, MaxBodyTokens, 1),
               <<MemBuf(c.body)>>, << >>, pre) :
        c \in ExtractCases, pre \in BOOLEAN }
    \cup
    { Scenario(ConfWith(FALSE, FALSE, TRUE, Some(EppEndpoint), FALSE, None, 5, 1),
               << >>, << >>, FALSE) }

Scenarios == BridgeScenarios \cup BbrScenarios \cup EppScenarios \cup BothScenarios

InitHist ==
    [terminals |-> 0, bbr_reads |-> 0, epp_reads |-> 0, extract_ran |-> FALSE,
     extracted_from |-> << >>, extracted |-> None, bbr_too_large |-> FALSE, bbr_set_header |-> FALSE,
     epp_after_bbr |-> FALSE, entries |-> {}, epp_failures |-> {}, collected |-> {},
     bbr_hdr_failed |-> FALSE,
     \* read_request_body panicked
     bbr_panicked |-> FALSE,
     acted_on_freed |-> FALSE,
     \* a timer handler ran on an event of a destroyed connection pool
     fired_on_freed_event |-> FALSE]

InitFrom(S) ==
    /\ \E s \in S :
          /\ conf = s.conf
          /\ bufs = s.bufs
          /\ r = [headers_in |-> s.headers,
                  \* pre: an earlier handler has already read the body
                  request_body |-> [present |-> s.pre, rest |-> 0,
                                    post_handler |-> "none"],
                  headers_out_status |-> 0,
                  phase_handler |-> 0,
                  state |-> "new",
                  reject_status |-> 0,
                  \* r->connection and its pool, from which the timer
                  \* events are allocated: "open" or "closed"
                  connection |-> "open"]
    /\ calls = [c \in CallIds |-> EmptyCall]
    /\ ncalls = 0
    /\ now = 0
    /\ hist = InitHist

Init == InitFrom(Scenarios)

(***************************************************************************)
(* Actions                                                                 *)
(***************************************************************************)
ReadRcs == {"NGX_OK", "NGX_AGAIN", "ERROR"}

\* outcomes of the host calls a handler makes
\* pread is reached only for a buffer held in a file
PreadOutcomes == IF \E i \in 1..Len(bufs) : bufs[i].in_file THEN BOOLEAN ELSE {TRUE}

HandlerEnv ==
    [read_rc : ReadRcs, hdr_ok : BOOLEAN, timer_ok : BOOLEAN, pread_ok : PreadOutcomes,
     conn_null : {FALSE}, count_zero : {FALSE}, data_null : {FALSE}]
\* the same for the timer handler, which may read a destroyed request
TimerEnv ==
    { e \in [read_rc : {"NGX_OK"}, hdr_ok : BOOLEAN, timer_ok : BOOLEAN,
             pread_ok : PreadOutcomes, conn_null : BOOLEAN, count_zero : BOOLEAN,
             data_null : BOOLEAN] :
        /\ r.state # "destroyed" => ~e.conn_null /\ ~e.count_zero
        /\ r.connection # "closed" => ~e.data_null }

Commit(w) ==
    /\ ~w.over
    /\ r' = w.r
    /\ calls' = w.calls
    /\ ncalls' = w.ncalls
    /\ hist' = w.hist

\* the phase engine reaches the access phase of a new request
AccessPhase ==
    /\ r.state = "new"
    /\ \E env \in HandlerEnv :
          \E w \in {[World EXCEPT !.r.state = "running"]} :
             \E out \in {inference_access_handler(w, env)} : Commit(out)
    /\ UNCHANGED <<conf, bufs, now>>

\* the host has read the rest of the body and calls the post_handler
BodyReadComplete ==
    /\ r.state = "suspended"
    /\ r.request_body.present /\ r.request_body.rest > 0
    /\ \E env \in HandlerEnv :
          \E w \in {[World EXCEPT !.r.request_body.rest = 0]} :
             \E out \in {IF r.request_body.post_handler = "bbr"
                         THEN bbr_body_read_handler(w, env)
                         ELSE IF r.request_body.post_handler = "epp"
                         THEN body_read_done(w, env)
                         ELSE w} : Commit(out)
    /\ UNCHANGED <<conf, bufs, now>>

\* the timer of call c expires
TimerFire(c) ==
    /\ calls[c].timer_set
    /\ \E env \in TimerEnv :
          \E w \in {World} :
             \E out \in {check_epp_result(w, c, env)} : Commit(out)
    /\ UNCHANGED <<conf, bufs, now>>

\* one millisecond passes
Tick ==
    /\ now < MaxTime
    /\ \E c \in CallIds : calls[c].watcher = "live" \/ calls[c].pc \in {"connecting", "wait_first"}
    /\ now' = now + 1
    /\ UNCHANGED <<conf, bufs, r, calls, ncalls, hist>>

\* the host destroys the suspended request (client abort, connection error);
\* the connection and its pool go with it or stay for a later request
RequestDestroyed ==
    /\ r.state = "suspended"
    /\ \E closes \in BOOLEAN :
          r' = [r EXCEPT !.state = "destroyed",
                         !.connection = IF closes THEN "closed" ELSE @]
    /\ UNCHANGED <<conf, bufs, calls, ncalls, now, hist>>

\* the responses the server behind an endpoint may send
ServerResponses(endpoint) ==
    IF endpoint = AnyEndpoint THEN AllResponses
    ELSE {ValueResponse, EmptyResponse}

\* a mapping that reports a completed exchange without a value as Ok
process_epp_async_none_ok(outcome, value) ==
    IF outcome \in {"Some", "None"} THEN [st |-> "full", ok |-> TRUE, val |-> value]
    ELSE [st |-> "full", ok |-> FALSE, val |-> "error"]

\* process_epp_async: the mapping of the client's return value to the
\* Result the task sends
process_epp_async(outcome, value) ==
    IF outcome = "Some" THEN [st |-> "full", ok |-> TRUE, val |-> value]
    ELSE IF outcome = "None" THEN [st |-> "full", ok |-> FALSE, val |-> "novalue"]
    ELSE [st |-> "full", ok |-> FALSE, val |-> "error"]

\* epp_headers_blocking_internal returns outcome to process_epp_async
ClientReturns(call, outcome, timed_out, how) ==
    [call EXCEPT !.client = outcome,
                 !.client_timed_out = timed_out,
                 !.stream_end = how,
                 !.wait_start = 0,
                 !.pc = "send"]

\* the ProcessingRequest the client builds: RequestHeaders with the
\* forwarded headers, end_of_stream set, both body modes None
headers_msg(ctx) ==
    [request |-> "RequestHeaders",
     headers |-> [i \in 1..Len(ctx.headers) |->
                    [key |-> ctx.headers[i].key, value |-> ctx.headers[i].value]],
     end_of_stream |-> TRUE,
     request_body_mode |-> "None",
     response_body_mode |-> "None"]

\* a client that gives up after one response without a value
MessageArrives_first_only(call, resp) ==
    LET val == parse_response_for_header_async(
                   resp, AsciiLower(call.ctx.upstream_header))
    IN  ClientReturns([call EXCEPT !.received = @ + 1,
                                   !.none_count = IF val.some THEN @ ELSE @ + 1,
                                   !.last_msg = resp,
                                   !.last_parsed = val,
                                   !.value = IF val.some THEN val.val ELSE ""],
                      IF val.some THEN "Some" ELSE "None", FALSE,
                      IF val.some THEN "value" ELSE "unmatched")

\* inbound.message() returned Ok(Some(resp))
MessageArrives(call, resp) ==
    LET val == parse_response_for_header_async(
                   resp, AsciiLower(call.ctx.upstream_header))
    IN  IF val.some
        THEN ClientReturns([call EXCEPT !.received = @ + 1,
                                        !.last_msg = resp,
                                        !.last_parsed = val,
                                        !.value = val.val],
                           "Some", FALSE, "value")
        ELSE [call EXCEPT !.received = @ + 1,
                          !.none_count = @ + 1,
                          !.last_msg = resp,
                          !.last_parsed = val,
                          !.pc = "wait_more",
                          !.wait_start = 0]

\* epp_headers_blocking_internal up to client.process(outbound).await
WorkerConnect(c) ==
    /\ calls[c].pc = "connecting"
    /\ \E ok \in BOOLEAN :
          calls' = [calls EXCEPT ![c] =
                      IF ok THEN [@ EXCEPT !.pc = "wait_first", !.wait_start = now,
                                           !.sent = Append(@, headers_msg(calls[c].ctx))]
                      ELSE ClientReturns(@, "Err", FALSE, "connect_error")]
    /\ UNCHANGED <<conf, bufs, r, ncalls, now, hist>>

\* the wait for the first response message, under tokio::time::timeout
WorkerFirstMessage(c) ==
    /\ calls[c].pc = "wait_first"
    /\ \/ \E resp \in ServerResponses(calls[c].ctx.endpoint) :
             calls' = [calls EXCEPT ![c] = MessageArrives(@, resp)]
       \/ \E ev \in {"closed", "error", "timeout"} :
          /\ ev = "timeout" => /\ calls[c].ctx.timeout_ms # 0
                               /\ now - calls[c].wait_start >= calls[c].ctx.timeout_ms
          /\ calls' = [calls EXCEPT ![c] =
                CASE ev = "closed"  -> ClientReturns(@, "None", FALSE, "closed")
                  [] ev = "error"   -> ClientReturns(@, "Err", FALSE, "error")
                  [] ev = "timeout" -> ClientReturns(@, "None", TRUE, "timeout")]
    /\ UNCHANGED <<conf, bufs, r, ncalls, now, hist>>

\* the loop over the later response messages
WorkerNextMessage(c) ==
    /\ calls[c].pc = "wait_more"
    /\ \/ /\ calls[c].received < MaxMsgs
          /\ \E resp \in ServerResponses(calls[c].ctx.endpoint) :
                calls' = [calls EXCEPT ![c] = MessageArrives(@, resp)]
       \/ \E ev \in {"closed", "error"} :
          calls' = [calls EXCEPT ![c] =
                CASE ev = "closed" -> ClientReturns(@, "None", FALSE, "closed")
                  [] ev = "error"  -> ClientReturns(@, "Err", FALSE, "error")]
    /\ UNCHANGED <<conf, bufs, r, ncalls, now, hist>>

\* the client future has returned: its stream and its locals are dropped
ClientDropped(call) ==
    [call EXCEPT !.value = "", !.sent = << >>, !.received = 0, !.none_count = 0,
                 !.last_msg = EmptyResponse, !.last_parsed = None,
                 !.stream_end = "none"]

\* spawn_epp_task: let _ = sender.send(result)
WorkerSend(c) ==
    /\ calls[c].pc = "send"
    /\ calls' = [calls EXCEPT ![c] =
                    IF @.watcher = "live"
                    THEN [ClientDropped(@)
                             EXCEPT !.chan = process_epp_async(calls[c].client,
                                                               calls[c].value),
                                    !.send = "delivered",
                                    !.pc = "notify"]
                    ELSE [ClientDropped(@) EXCEPT !.send = "noop", !.pc = "notify"]]
    /\ UNCHANGED <<conf, bufs, r, ncalls, now, hist>>

\* libc::write on the descriptor number the task was given: on the open
\* eventfd it notifies; once Drop for ResultWatcher has closed the number the
\* write fails with EBADF or lands on whatever descriptor the host has
\* opened under that number since
WriteLands(eventfd) ==
    CASE eventfd = "open"   -> {"open"}
      [] eventfd = "closed" -> {"ebadf", "reused"}
      [] OTHER              -> {"ebadf"}

\* the calls whose open eventfd has the descriptor number call c was given
HoldersOfFd(c) ==
    {d \in CallIds \ {c} : calls[d].eventfd = "open" /\ calls[d].fd = calls[c].fd}

\* spawn_epp_task: libc::write(eventfd, ...).  When a later call's eventfd
\* has taken the number, the write is a notification on that call's eventfd
WorkerNotify(c) ==
    /\ calls[c].pc = "notify"
    /\ IF calls[c].eventfd = "closed" /\ HoldersOfFd(c) # {}
       THEN \E d \in HoldersOfFd(c) :
               calls' = [calls EXCEPT ![c].notify = "reused", ![c].pc = "done",
                                      ![d].foreign_writes = Inc2(@)]
       ELSE \E landed \in WriteLands(calls[c].eventfd) :
               calls' = [calls EXCEPT ![c].notify = landed, ![c].pc = "done"]
    /\ UNCHANGED <<conf, bufs, r, ncalls, now, hist>>

\* the task panics before it sends: its sender is dropped
WorkerPanic(c) ==
    /\ calls[c].pc \in {"connecting", "wait_first", "wait_more"}
    /\ calls' = [calls EXCEPT ![c] = ClientDropped(@),
                              ![c].pc = "panicked",
                              ![c].client = "panic",
                              ![c].wait_start = 0,
                              ![c].chan.st = IF calls[c].watcher = "live"
                                             THEN "closed" ELSE @]
    /\ UNCHANGED <<conf, bufs, r, ncalls, now, hist>>

Next ==
    \/ AccessPhase
    \/ BodyReadComplete
    \/ Tick
    \/ RequestDestroyed
    \/ \E c \in CallIds : TimerFire(c)
    \/ \E c \in CallIds : WorkerConnect(c)
    \/ \E c \in CallIds : WorkerFirstMessage(c)
    \/ \E c \in CallIds : WorkerNextMessage(c)
    \/ \E c \in CallIds : WorkerSend(c)
    \/ \E c \in CallIds : WorkerNotify(c)
    \/ \E c \in CallIds : WorkerPanic(c)

Spec == Init /\ [][Next]_vars

\* the async bridge on its own: the EPP stage with its failure modes
InitBody == InitFrom(SplitScenarios \cup EppMemoryScenarios)
SpecBody == InitBody /\ [][Next]_vars

InitExtract == InitFrom(ExtractScenarios)
SpecExtract == InitExtract /\ [][Next]_vars

InitParse == InitFrom(ParseScenarios)
SpecParse == InitParse /\ [][Next]_vars

InitBridge == InitFrom(BridgeScenarios)
SpecBridge == InitBridge /\ [][Next]_vars

\* the body read another handler has started and not finished: the request
\* has its body structure, rest bytes are still to come
ReadInProgress == [present |-> TRUE, rest |-> 1, post_handler |-> "other"]

\* how a request may reach the access phase: with a body read of another
\* handler in progress, with an error status an earlier handler has set, or
\* with neither
Entries(s) ==
    {[body |-> ReadInProgress, status |-> 0],
     [body |-> [present |-> s.pre, rest |-> 0, post_handler |-> "none"],
      status |-> NGX_HTTP_REQUEST_ENTITY_TOO_LARGE]}
    \cup {[body |-> [present |-> s.pre, rest |-> 0, post_handler |-> "none"],
           status |-> 0] : x \in {s} \cap BridgeScenarios}

InitRead ==
    /\ \E s \in Scenarios :
          \E e \in Entries(s) :
             /\ conf = s.conf
             /\ bufs = s.bufs
             /\ r = [headers_in |-> s.headers,
                     request_body |-> e.body,
                     headers_out_status |-> e.status,
                     phase_handler |-> 0,
                     state |-> "new",
                     reject_status |-> 0,
                     connection |-> "open"]
    /\ calls = [c \in CallIds |-> EmptyCall]
    /\ ncalls = 0
    /\ now = 0
    /\ hist = InitHist
SpecRead == InitRead /\ [][Next]_vars

(***************************************************************************)
(* Properties of the async bridge                                          *)
(***************************************************************************)
\* C1: a call through the async bridge is resolved by exactly one of
\* timeout, result and cancellation: it never has two resolutions, the
\* request is resumed or finalized at most once for it and only together
\* with a resolution, and a resolved call has no watcher and no armed timer.
C1_ResolvedOnce ==
    \A c \in CallIds :
        /\ Len(calls[c].resolved) <= 1
        /\ calls[c].acts <= 1
        /\ calls[c].acts = 1 => calls[c].resolved \in {<<"timeout">>, <<"result">>}
        /\ calls[c].resolved # << >> =>
               calls[c].watcher = "freed" /\ ~calls[c].timer_set
        /\ calls[c].watcher = "live" => calls[c].resolved = << >>

\* a call resolved by its result: the header is set, the request resumed once
C1_Witness ==
    \E c \in CallIds :
        /\ calls[c].resolved = <<"result">>
        /\ calls[c].applied /\ calls[c].acts = 1
        /\ calls[c].pc = "done"
        /\ r.state = "continue"

\* C2: once a call is resolved on the timeout path, a result the worker
\* produces later is never applied: the header is not set from it and the
\* request is not resumed or finalized a second time.
C2_NoLateResult ==
    \A c \in CallIds :
        (calls[c].resolved # << >> /\ Head(calls[c].resolved) = "timeout") =>
            /\ ~calls[c].applied
            /\ calls[c].chan.st # "taken"
            /\ calls[c].acts <= 1
            /\ Len(calls[c].resolved) = 1

\* the worker produced an upstream after the timeout; its send was a no-op
C2_Witness ==
    \E c \in CallIds :
        /\ calls[c].resolved = <<"timeout">>
        /\ calls[c].client = "Some"
        /\ calls[c].send = "noop"
        /\ calls[c].pc = "done"

\* C4: a firing of the timer that finds the request alive and more than
\* timeout_ms elapsed since the call started resolves the call as a timeout,
\* wherever the worker is (connecting, waiting for the first message,
\* waiting for a later one, or already done).
C4_TimeoutWins ==
    \A c \in CallIds :
        calls[c].late_fire => calls[c].resolved = <<"timeout">>

\* the call timed out while the worker was still waiting for a later message
C4_Witness ==
    \E c \in CallIds :
        /\ calls[c].late_fire
        /\ calls[c].pc = "wait_more"
        /\ calls[c].chan.st = "empty"

\* C3: when the request was destroyed before its call resolved, the timer
\* handler neither reads the request (its connection, its reference count)
\* nor acts on it.
C3_NoUseAfterDestroy ==
    /\ \A c \in CallIds : ~calls[c].deref_freed
    /\ ~hist.acted_on_freed

\* C5: a call whose client-side time budget elapsed is never reported by the
\* client as the no-match outcome Ok(None), and under fail-closed the request
\* it fails is rejected with 504.
C5_TimeoutIsDistinct ==
    \A c \in CallIds :
        calls[c].client_timed_out =>
            /\ calls[c].client # "None"
            /\ (calls[c].acts = 1 /\ r.state = "rejected") =>
                   r.reject_status = NGX_HTTP_GATEWAY_TIME_OUT

(***************************************************************************)
(* Properties of the pipeline                                              *)
(***************************************************************************)
\* C6: when the EPP stage has failed and the request has reached its
\* outcome: under fail-open the request continues and, when a default
\* upstream is configured, the upstream header equals it; under fail-closed
\* the request is rejected and the header is not the default.
C6_FailurePolicy ==
    (/\ hist.epp_failures # {}
     /\ hist.epp_failures \subseteq
            {"error", "novalue", "closed", "timeout", "extract", "timer"}
     /\ r.state \in {"continue", "rejected"}) =>
        IF conf.epp_failure_mode_allow
        THEN /\ r.state = "continue"
             /\ conf.default_upstream.some =>
                    get_header_in(r.headers_in, epp_header_name) = conf.default_upstream
        ELSE /\ r.state = "rejected"
             /\ get_header_in(r.headers_in, epp_header_name) # Some(DefaultUpstream)

\* C7: a live request is never left suspended with nothing that can resume
\* it: while it is suspended, a body read is in progress or the timer of a
\* call is armed.
C7_NeverStranded ==
    r.state = "suspended" =>
        \/ r.request_body.present /\ r.request_body.rest > 0
        \/ \E c \in CallIds : calls[c].timer_set

C9_PresentHeaderSkipsStage ==
    \A e \in hist.entries :
        e.present => ~e.worked /\ e.status = "NGX_DECLINED" /\ e.same_headers

\* C10: when the BBR stage finds the body over the ceiling, the request is
\* rejected with 413 whatever bbr_failure_mode_allow is, and the model
\* extraction does not run.
C10_TooLargeRejects ==
    hist.bbr_too_large =>
        /\ r.state = "rejected"
        /\ r.reject_status = NGX_HTTP_REQUEST_ENTITY_TOO_LARGE
        /\ ~hist.extract_ran

C12_WithinCeiling ==
    \A e \in hist.collected :
        e.ok => e.len <= (IF e.stage = "bbr" THEN conf.bbr_max_body_size
                          ELSE conf.max_body_size)

\* C13: once BBR has collected a body successfully for a request without
\* the target header (an empty body and a body that is not JSON included)
\* and the header write did not fail, the request carries the target header
\* with the extracted model, or with the configured default model when the
\* extraction found none.
C13_HeaderAfterCollection ==
    \A e \in hist.collected :
        (e.stage = "bbr" /\ e.ok /\ ~hist.bbr_hdr_failed) =>
            LET body  == read_request_body(bufs, conf.bbr_max_body_size,
                                           conf.bbr_failure_mode_allow, e.pread_ok).body
                model == extract_model_from_body(body)
            IN  get_header_in(r.headers_in, bbr_header_name) =
                    Some(IF model.some THEN model.val ELSE conf.bbr_default_model)

\* C14: when the result path has taken a value v from a call's channel for
\* a live request and the header write did not fail, the request carries
\* the upstream header with exactly v, carries no header with the default
\* upstream, and has continued to the next phase (it is neither rejected
\* nor suspended again).
C14_ValueApplied ==
    \A c \in CallIds :
        (/\ calls[c].chan.st = "taken" /\ calls[c].chan.ok
         /\ "set_header" \notin hist.epp_failures
         /\ r.state # "destroyed")
        => /\ \E i \in 1..Len(r.headers_in) :
                /\ r.headers_in[i].key = calls[c].ctx.upstream_header
                /\ r.headers_in[i].value = calls[c].chan.val
           /\ \A i \in 1..Len(r.headers_in) : r.headers_in[i].value # DefaultUpstream
           /\ r.state = "continue"

\* the extraction rule as the specification states it: the entries that
\* yield a value, and the value of the first of them
YieldingEntries(set_headers, target) ==
    {i \in 1..Len(set_headers) :
        /\ set_headers[i].has_header
        /\ AsciiLower(set_headers[i].key) = AsciiLower(target)
        /\ (set_headers[i].value # "" \/ set_headers[i].raw_value # "")}

ExtractionRule(set_headers, target) ==
    IF YieldingEntries(set_headers, target) = {} THEN None
    ELSE LET hdr == set_headers[SetMin(YieldingEntries(set_headers, target))]
         IN  Some(IF hdr.value # "" THEN hdr.value
                  ELSE from_utf8_lossy(hdr.raw_value))

\* the response carries a header mutation the parser hands to the extraction
CarriesMutation(resp) ==
    /\ resp.mutation.some
    /\ \/ resp.variant \in {"RequestTrailers", "ResponseTrailers", "ImmediateResponse"}
       \/ /\ resp.variant \in {"RequestHeaders", "ResponseHeaders",
                               "RequestBody", "ResponseBody"}
          /\ resp.common

\* C15: for every header mutation a response carries, the extraction
\* returns the value of the first set-entry, in list order, whose key equals
\* the target ASCII-case-insensitively and whose textual value is not empty
\* (returned as is) or else whose raw value is not empty (returned decoded
\* as lossy UTF-8); an entry with the key and both values empty does not stop
\* the scan, and the result is None only if no entry yields a value.
C15_FirstValuedEntry ==
    \A c \in CallIds :
        (calls[c].received > 0 /\ CarriesMutation(calls[c].last_msg)) =>
            calls[c].last_parsed =
                ExtractionRule(calls[c].last_msg.mutation.val,
                               calls[c].ctx.upstream_header)

\* a response whose first entry has the key in another spelling and no
\* value, and whose second entry has only an invalid raw value, was read and
\* the second entry's decoded value returned
C15_Witness ==
    \E c \in CallIds :
        /\ calls[c].pc = "send"
        /\ calls[c].client = "Some"
        /\ calls[c].last_msg.mutation.some
        /\ calls[c].last_msg.mutation.val =
               <<HeaderValueOption("X-Inference-Upstream", "", ""),
                 HeaderValueOption("x-inference-upstream", "", RawInvalid)>>
        /\ calls[c].value = "\\uFFFD0.0.0.8:8000"

\* C16: for each of the seven response variants the parser's result is the
\* header extraction applied to that variant's header mutation, and it is
\* None when the variant carries no mutation (or, for the headers and body
\* variants, no common response) or when the response is empty.
C16_ParserPerVariant ==
    \A c \in CallIds :
        calls[c].received > 0 =>
            /\ calls[c].last_msg.variant \in Variants \cup {"None"}
            /\ calls[c].last_parsed =
                 IF CarriesMutation(calls[c].last_msg)
                 THEN extract_header_from_mutation_async(
                          calls[c].last_msg.mutation.val,
                          AsciiLower(calls[c].ctx.upstream_header))
                 ELSE None

\* the client read an ImmediateResponse whose headers yield a value, after
\* a response that yielded none
C16_Witness ==
    \E c \in CallIds :
        /\ calls[c].pc = "send"
        /\ calls[c].none_count > 0
        /\ calls[c].last_msg.variant = "ImmediateResponse"
        /\ calls[c].last_parsed.some
        /\ calls[c].value = calls[c].last_parsed.val

\* C17: in EPP mode the client sends exactly one message on the stream, a
\* RequestHeaders with both body modes None and end_of_stream true that
\* carries the forwarded headers in order; it then reads the responses in
\* arrival order and returns Ok(Some(v)) for the first response whose header
\* mutation yields v, Ok(None) when the stream closes before any response
\* yields a value, and an error when the connection or the stream fails
\* first. (The elapsed wait for the first response is a fourth way out of
\* the client; it is the subject of C5.)
C17_OneMessageThenFirstValue ==
    \A c \in CallIds :
        LET call == calls[c]
        IN  /\ Len(call.sent) <= 1
            /\ (call.pc \in {"wait_first", "wait_more"} \/ call.received > 0) =>
                   /\ Len(call.sent) = 1
                   /\ call.sent[1].request = "RequestHeaders"
                   /\ call.sent[1].end_of_stream
                   /\ call.sent[1].request_body_mode = "None"
                   /\ call.sent[1].response_body_mode = "None"
                   /\ Len(call.sent[1].headers) = Len(call.ctx.headers)
                   /\ \A i \in 1..Len(call.ctx.headers) :
                         /\ call.sent[1].headers[i].key = call.ctx.headers[i].key
                         /\ call.sent[1].headers[i].value = call.ctx.headers[i].value
            /\ call.pc = "wait_more" =>
                   /\ ~call.last_parsed.some
                   /\ call.received = call.none_count
            /\ (call.pc = "send" /\ ~call.client_timed_out) =>
                   /\ call.stream_end \in {"value", "closed", "error", "connect_error"}
                   /\ call.client = "Some" <=> call.stream_end = "value"
                   /\ call.client = "None" <=> call.stream_end = "closed"
                   /\ call.client = "Err" <=> call.stream_end \in {"error", "connect_error"}
                   /\ call.client = "Some" =>
                         /\ call.last_parsed = Some(call.value)
                         /\ call.received = call.none_count + 1
                   /\ call.client = "None" => call.received = call.none_count
                   /\ call.stream_end = "connect_error" =>
                         call.sent = << >> /\ call.received = 0

\* two forwarded headers were sent in one message, one response without a
\* value was read, and the next response's value was returned
C17_Witness ==
    \E c \in CallIds :
        /\ calls[c].pc = "send"
        /\ calls[c].client = "Some"
        /\ calls[c].none_count = 1
        /\ calls[c].received = 2
        /\ Len(calls[c].sent) = 1
        /\ Len(calls[c].sent[1].headers) = 2
        /\ calls[c].value = "10.0.0.6:8000"

\* the step is one of call c's tokio task (the host only starts the task)
WorkerStep(c) == calls[c].pc # "idle" /\ calls'[c].pc # calls[c].pc

\* the fields of a call that the host thread owns: the watcher, its timer
\* and event, the descriptor, and what the host did with the result
HostOwned(call) ==
    <<call.watcher, call.start_time_ms, call.ctx, call.timer_set, call.ev_data,
      call.eventfd, call.resolved, call.acts, call.applied, call.deref_freed,
      call.del_unset, call.late_fire>>

\* C18: on the result path the worker task does two things, one send on the
\* call's oneshot channel and one write to its notification descriptor; no
\* step of the task changes the request, its headers, the timer or any other
\* host-owned state, and the request is resumed or finalized only by steps
\* of the host thread.
C18_WorkerTouchesOnlyChannel ==
    [][/\ \A c \in CallIds :
            WorkerStep(c) =>
               /\ r' = r /\ hist' = hist /\ conf' = conf /\ bufs' = bufs
               /\ ncalls' = ncalls /\ now' = now
               /\ \A d \in CallIds : HostOwned(calls'[d]) = HostOwned(calls[d])
               /\ \A d \in CallIds \ {c} : calls'[d] = calls[d]
               /\ calls[c].pc = "send" =>
                     /\ calls'[c].pc = "notify"
                     /\ calls[c].send = "none" /\ calls'[c].send \in {"delivered", "noop"}
                     /\ calls'[c].notify = calls[c].notify
                     /\ calls'[c].send = "noop" => calls'[c].chan = calls[c].chan
               /\ calls[c].pc = "notify" =>
                     /\ calls'[c].pc = "done"
                     /\ calls'[c].chan = calls[c].chan
                     /\ calls'[c].send = calls[c].send
                     /\ calls[c].notify = "none"
                     /\ calls'[c].notify # "reused"
               /\ calls[c].pc \notin {"send", "notify"} =>
                     /\ calls'[c].send = calls[c].send
                     /\ calls'[c].notify = calls[c].notify
                     /\ calls'[c].chan.st \in {calls[c].chan.st, "closed"}
       /\ (r' # r \/ \E c \in CallIds : calls'[c].acts # calls[c].acts) =>
             \A c \in CallIds : ~WorkerStep(c)]_vars
\* the task of call c panicked
Panicked(c) == calls[c].client = "panic"

\* it panicked while the call was pending: its sender was dropped under a
\* live receiver
PanickedPending(c) == Panicked(c) /\ calls[c].chan.st = "closed"

\* what the failure policy leaves on a live request for a call that failed
\* with the given status
FailedAs(c, status) ==
    /\ calls[c].acts = 1
    /\ ~calls[c].applied
    /\ ~calls[c].ctx.failure_mode_allow =>
           r.state = "rejected" /\ r.reject_status = status
    /\ (calls[c].ctx.failure_mode_allow /\ calls[c].ctx.default_upstream.some
          /\ "set_default" \notin hist.epp_failures) =>
           \E i \in 1..Len(r.headers_in) :
               /\ r.headers_in[i].key = calls[c].ctx.upstream_header
               /\ r.headers_in[i].value = calls[c].ctx.default_upstream.val

\* the panic stays in the task: the task is over, nothing was sent or
\* written, and while the call is unresolved its timer is pending
PanicStaysInTask(c) ==
    /\ calls[c].pc = "panicked"
    /\ calls[c].send = "none" /\ calls[c].notify = "none"
    /\ calls[c].chan.st \in {"closed", "empty"}
    /\ calls[c].watcher = "live" =>
           /\ calls[c].chan.st = "closed"
           /\ calls[c].resolved = << >>
    /\ (calls[c].watcher = "live" /\ r.state # "destroyed") =>
           calls[c].timer_set /\ calls[c].ev_data

ReleasedWithWatcher(c) ==
    /\ calls[c].watcher = "live" => calls[c].eventfd = "open"
    /\ calls[c].watcher = "freed" =>
           calls[c].eventfd = "closed" /\ ~calls[c].timer_set
    /\ calls[c].watcher = "none" =>
           calls[c].eventfd = "none" /\ ~calls[c].timer_set

\* C20: the notification resources of each ResultWatcher are released
\* exactly once: the eventfd is closed once, when the watcher is destroyed,
\* and the timer is removed once: never removed while it is not armed (as
\* it is not inside its own expired handler) and never left armed after the
\* watcher is destroyed.
C20_ReleasedExactlyOnce ==
    \A c \in CallIds :
        /\ ReleasedWithWatcher(c)
        /\ calls[c].del_unset = 0

\* the part of C20 about the descriptor and about no timer outliving the
\* watcher
C20_ReleasedWithWatcher == \A c \in CallIds : ReleasedWithWatcher(c)

\* C21: the timer event lives in the connection's pool; it is checked for
\* liveness on every firing and released when the connection is torn down,
\* so that when the connection closes while a call is outstanding no timer
\* stays armed on the freed event and the handler never runs on freed
\* memory (event, watcher or request).
C21_TimerTiedToConnection ==
    /\ r.connection = "closed" => \A c \in CallIds : ~calls[c].timer_set
    /\ ~hist.fired_on_freed_event
    /\ r.connection = "closed" => \A c \in CallIds : ~calls[c].deref_freed

\* the step is one of the host thread: a handler or a timer handler ran, or
\* the host destroyed the request
HostStep ==
    /\ now' = now
    /\ \A c \in CallIds : ~WorkerStep(c)
    /\ <<r, calls, ncalls, hist>>' # <<r, calls, ncalls, hist>>

CasesOfExtraction == {c \in ExtractCases : c.body = hist.extracted_from}

EmptyModelExtracted ==
    /\ hist.extract_ran
    /\ \E c \in CasesOfExtraction : c.class = "string" /\ c.val = ""

C25_TopLevelExactKey ==
    hist.extract_ran =>
        /\ hist.extracted_from \in
              {Obj1(o) : o \in OtherMembers}
              \cup {Obj2(o1, o2) : o1 \in OtherMembers, o2 \in OtherMembers} =>
                 hist.extracted = None
        /\ \A v \in StringValues \cup NonStringValues, o \in OtherMembers :
              hist.extracted_from \in {Obj2(o, Member("\"model\"", v)),
                                       Obj2(Member("\"model\"", v), o)} =>
                 hist.extracted = IF v \in StringValues THEN Some(StrVal(v[1]))
                                  ELSE None

\* the extraction ran on {"model": "", "Model": "gpt-4"} and returned the
\* empty string
C25_Witness ==
    /\ hist.extract_ran
    /\ hist.extracted_from = Obj2(Member("\"model\"", <<"\"\"">>),
                                  Member("\"Model\"", <<"\"gpt-4\"">>))
    /\ hist.extracted = Some("")

\* the task of call c hands its Result to the channel in this step
Delivers(c) ==
    calls[c].pc = "send" /\ calls'[c].send = "delivered"

\* C26: process_epp_async returns Ok(v) only when the client returned the
\* value v for the target header; when the client failed or completed
\* without a value it returns Err, never Ok, and the host takes an Err
\* through the failure policy: it never sets the header from it.
C26_OkOnlyWithValue ==
    [][\A c \in CallIds :
          /\ Delivers(c) =>
                /\ calls'[c].chan.st = "full"
                /\ calls'[c].chan.ok <=> calls[c].client = "Some"
                /\ calls'[c].chan.ok => /\ calls'[c].chan.val = calls[c].value
                                        /\ calls[c].value # ""
                /\ calls[c].client \in {"None", "Err"} => ~calls'[c].chan.ok
          /\ (calls[c].chan.st = "full" /\ calls'[c].chan.st = "taken"
                 /\ ~calls[c].chan.ok) =>
                /\ ~calls'[c].applied
                /\ calls[c].chan.val \in hist'.epp_failures
                /\ r'.headers_in \in
                      {r.headers_in} \cup
                      {Append(r.headers_in,
                              Header(calls[c].ctx.upstream_header,
                                     calls[c].ctx.default_upstream.val))}]_vars

\* the client completed without a value, the task sent Err and the host
\* took it through the failure policy
C26_Witness ==
    \E c \in CallIds :
        /\ calls[c].client = "None"
        /\ calls[c].send = "delivered"
        /\ calls[c].chan = [st |-> "taken", ok |-> FALSE, val |-> "novalue"]
        /\ calls[c].resolved = <<"result">>
        /\ "novalue" \in hist.epp_failures

\* the resolution check_epp_result gives call c in this step
Resolves(c, how) ==
    calls'[c].resolved = Append(calls[c].resolved, how)

\* the budget of call c is exceeded at this instant
BudgetExceeded(c) == now - calls[c].start_time_ms > calls[c].ctx.timeout_ms

\* C28: check_epp_result checks request liveness, then the timeout, then
\* the channel: a firing resolves the call as cancelled only when the
\* request is gone; on a live request whose budget is exceeded it resolves
\* the call as a timeout even when a result waits in the channel, and the
\* waiting result is dropped unread (not taken, not applied); the channel
\* is read only when the budget is not exceeded.
C28_LivenessTimeoutChannel ==
    [][\A c \in CallIds :
          calls'[c].resolved # calls[c].resolved =>
            /\ \E how \in {"cancel", "timeout", "result"} : Resolves(c, how)
            /\ Resolves(c, "cancel") => r.state = "destroyed"
            /\ (r.state # "destroyed" /\ BudgetExceeded(c)) =>
                  /\ Resolves(c, "timeout")
                  /\ calls'[c].chan = calls[c].chan
                  /\ ~calls'[c].applied
                  /\ calls'[c].watcher = "freed"
            /\ (r.state # "destroyed" /\ ~BudgetExceeded(c)) =>
                  /\ Resolves(c, "result")
                  /\ calls[c].chan.st = "full" => calls'[c].chan.st = "taken"]_vars

\* a call resolved as a timeout on a live request while its result waited
\* in the channel: the result is still there, unread
C28_Witness ==
    \E c \in CallIds :
        /\ calls[c].resolved = <<"timeout">>
        /\ ~calls[c].deref_freed
        /\ calls[c].chan.st = "full" /\ calls[c].chan.ok
        /\ calls[c].send = "delivered"
        /\ ~calls[c].applied

\* call c's timer is armed on a live request, within the budget, with
\* nothing in the channel yet
EmptyPoll(c) ==
    /\ calls[c].timer_set /\ calls[c].ev_data
    /\ r.state # "destroyed"
    /\ ~BudgetExceeded(c)
    /\ calls[c].chan.st = "empty"

\* C29: when check_epp_result fires while the request is alive, the timeout
\* has not elapsed and the channel is empty, it re-arms the timer for 1 ms
\* and changes nothing else: the watcher and its channel are kept, no header
\* is added, the request is neither resumed nor finalized.
C29_EmptyPollOnlyRearms ==
    \A c \in CallIds :
        EmptyPoll(c) =>
            \A env \in TimerEnv :
                LET out == check_epp_result(World, c, env)
                IN  /\ out.calls[c].timer_set
                    /\ out.calls[c].timer_ms = 1
                    /\ out.calls[c] = [calls[c] EXCEPT !.timer_ms = 1]
                    /\ out.calls[c].watcher = "live"
                    /\ out.calls[c].chan = EmptyChan
                    /\ \A d \in CallIds \ {c} : out.calls[d] = calls[d]
                    /\ out.r = r
                    /\ out.ncalls = ncalls
                    /\ out.hist = hist
                    /\ ~out.over

\* a poll of a pending call a millisecond after its dispatch, while the
\* task still waits for the server: the firing leaves the state as it is
C29_Witness ==
    \E c \in CallIds :
        /\ EmptyPoll(c)
        /\ now > calls[c].start_time_ms
        /\ calls[c].pc = "wait_first"
        /\ r.state = "suspended"
        /\ \E env \in TimerEnv : check_epp_result(World, c, env) = World

\* the EPP stage would get past its configuration and header checks
EppWouldRun ==
    /\ conf.epp_enable
    /\ conf.epp_endpoint.some /\ conf.epp_endpoint.val # ""
    /\ ~get_header_in(r.headers_in, epp_header_name).some
    /\ r.headers_out_status < 300

\* C30: EppProcessor::process_request never dispatches an RPC and never
\* starts a second body read while another handler's body read is still in
\* progress (request body present, rest # 0): it returns NGX_DECLINED and
\* installs no body callback.  Stated of the stage applied to every
\* reachable request with such a read, and of what the stage has done while
\* the read is in progress.
C30_DeclinesDuringForeignRead ==
    (r.request_body.present /\ r.request_body.rest # 0
       /\ r.request_body.post_handler = "other") =>
        /\ ncalls = 0
        /\ hist.epp_reads = 0
        /\ \A e \in hist.entries :
               e.stage = "epp" => e.status = "NGX_DECLINED" /\ ~e.worked
        /\ r.state \in {"new", "running", "suspended"} =>
               \A env \in HandlerEnv :
                  LET res == EppProcessor_process_request(
                                 [World EXCEPT !.r.state = "running"], env)
                  IN  /\ res.status = "NGX_DECLINED"
                      /\ res.w.ncalls = ncalls
                      /\ res.w.calls = calls
                      /\ res.w.r.request_body = r.request_body
                      /\ res.w.r.headers_in = r.headers_in
                      /\ res.w.hist.epp_reads = hist.epp_reads

\* the access handler has run the EPP stage of a configured endpoint on a
\* request whose body another handler is still reading: the stage declined,
\* the read and its callback are as they were
C30_Witness ==
    /\ EppWouldRun
    /\ r.request_body = ReadInProgress
    /\ r.state = "continue"
    /\ \E e \in hist.entries :
          e.stage = "epp" /\ e.status = "NGX_DECLINED" /\ ~e.worked /\ ~e.present
    /\ ncalls = 0

\* what a pending call owns on the host side: its watcher, its timer event,
\* its channel and its notification descriptor
Pending(call) ==
    <<call.watcher, call.start_time_ms, call.ctx, call.timer_set, call.timer_ms,
      call.ev_data, call.chan, call.eventfd, call.fd, call.foreign_writes>>

\* this step is taken by or for call c: by its task, or by the host when it
\* resolves the call
StepOf(c) ==
    \/ WorkerStep(c)
    \/ calls'[c].resolved # calls[c].resolved

\* a step of one call leaves the watcher, timer and channel of every other
\* pending call as they were, and a header set from a result carries the
\* value of the call resolved in that step
ResolvesOwnOnly ==
    \A c \in CallIds :
        StepOf(c) =>
            /\ \A d \in CallIds \ {c} :
                  calls[d].watcher = "live" =>
                      [Pending(calls'[d]) EXCEPT ![10] = 0]
                          = [Pending(calls[d]) EXCEPT ![10] = 0]
            /\ (calls'[c].applied /\ ~calls[c].applied) =>
                  /\ Resolves(c, "result")
                  /\ calls[c].chan.ok
                  /\ r'.headers_in =
                        Append(r.headers_in,
                               Header(calls[c].ctx.upstream_header, calls[c].chan.val))
                  /\ \A d \in CallIds \ {c} : calls'[d].applied = calls[d].applied

\* the part of C27 that holds on every behaviour
C27_ResolvesOwnOnly == [][ResolvesOwnOnly]_vars

C31_DeclinesOnErrorStatus ==
    r.headers_out_status >= 300 =>
        /\ ncalls = 0
        /\ hist.epp_reads = 0
        /\ \A e \in hist.entries :
               e.stage = "epp" =>
                   e.status = "NGX_DECLINED" /\ ~e.worked /\ e.same_headers
        /\ r.state \in {"new", "running", "suspended"} =>
               \A env \in HandlerEnv :
                  LET res == EppProcessor_process_request(
                                 [World EXCEPT !.r.state = "running"], env)
                  IN  /\ res.status = "NGX_DECLINED"
                      /\ res.w.ncalls = ncalls
                      /\ res.w.calls = calls
                      /\ res.w.r.headers_in = r.headers_in
                      /\ res.w.r.request_body = r.request_body
                      /\ res.w.hist.epp_reads = hist.epp_reads

\* the access handler has run the EPP stage of a configured endpoint on a
\* request with status 413 and no upstream header: the stage declined, the
\* request goes on without a call and without the header
C31_Witness ==
    /\ conf.epp_enable
    /\ conf.epp_endpoint.some /\ conf.epp_endpoint.val # ""
    /\ r.headers_out_status = NGX_HTTP_REQUEST_ENTITY_TOO_LARGE
    /\ ~get_header_in(r.headers_in, epp_header_name).some
    /\ r.request_body.rest = 0
    /\ r.state = "continue"
    /\ \E e \in hist.entries :
          e.stage = "epp" /\ e.status = "NGX_DECLINED" /\ ~e.worked /\ ~e.present
    /\ ncalls = 0

\* the BBR stage has collected a body longer than the ceiling in allow mode
TruncatingCollection(e) ==
    /\ e.stage = "bbr"
    /\ conf.bbr_failure_mode_allow
    /\ Len(ChainBytes(bufs)) > conf.bbr_max_body_size

\* what C32 says of such a collection
TruncatedToCeiling(e) ==
    /\ e.ok
    /\ e.len = conf.bbr_max_body_size
    /\ hist.bbr_too_large
    /\ hist.extract_ran
    /\ hist.extracted_from = Prefix(ChainBytes(bufs), conf.bbr_max_body_size)

C33_AtMostOneCall == ncalls <= 1

\* C34: the worker task never writes to the notification eventfd after the
\* ResultWatcher that owns it has been dropped and has closed it: every write
\* of a task reaches the call's own open descriptor, never a closed or a
\* reused number.
C34_NoWriteAfterClose ==
    \A c \in CallIds :
        /\ calls[c].notify \in {"none", "open"}
        /\ calls[c].foreign_writes = 0

\* every watcher is freed at most once and no timer is armed whose watcher
\* has been freed or whose event has lost its data
C35_WatcherFreedOnce ==
    \A c \in CallIds :
        /\ calls[c].frees <= 1
        /\ calls[c].watcher = "freed" <=> calls[c].frees = 1
        /\ calls[c].timer_set => calls[c].watcher = "live" /\ calls[c].ev_data

UpstreamEntries ==
    {i \in 1..Len(r.headers_in) :
        eq_ignore_ascii_case(r.headers_in[i].key, epp_header_name)}

\* C36: the request carries at most one header entry with the upstream
\* header name: neither the success path nor the fail-open default path nor
\* the fallback from a failed header write adds the header to a request
\* that already has it.
C36_AtMostOneUpstreamHeader == Cardinality(UpstreamEntries) <= 1

\* the same for a request whose header values all decode
C36_OneHeaderWhenDecodable ==
    (\A i \in 1..Len(r.headers_in) : r.headers_in[i].utf8) =>
        Cardinality(UpstreamEntries) <= 1

\* a BBR collection that returned Err(())
BbrCollectionFailed(e) == e.stage = "bbr" /\ ~e.ok

\* C37: BBR's read_request_body returns an error only for a body that
\* exceeds the ceiling in fail-closed mode, and the response status is then
\* already 413: bbr_body_read_handler never takes its 500 branch and never
\* takes the branch that returns on an error in fail-open mode.
C37_ErrorOnlyTooLargeFailClosed ==
    /\ \A e \in hist.collected :
          BbrCollectionFailed(e) =>
             /\ ~conf.bbr_failure_mode_allow
             /\ hist.bbr_too_large
             /\ Len(ChainBytes(bufs)) > conf.bbr_max_body_size
             /\ r.headers_out_status = NGX_HTTP_REQUEST_ENTITY_TOO_LARGE
             /\ r.state = "rejected"
             /\ r.reject_status = NGX_HTTP_REQUEST_ENTITY_TOO_LARGE
    /\ r.headers_out_status # NGX_HTTP_INTERNAL_SERVER_ERROR
    /\ r.reject_status # NGX_HTTP_INTERNAL_SERVER_ERROR
    /\ \A allow, pread_ok \in BOOLEAN :
          LET res == read_request_body(bufs, conf.bbr_max_body_size, allow, pread_ok)
          IN  ~res.ok => ~allow /\ res.status413 /\ res.too_large

\* a fail-closed collection of a body over the ceiling has returned the
\* error and the request is rejected with 413
C37_Witness ==
    /\ \E e \in hist.collected : BbrCollectionFailed(e)
    /\ ~conf.bbr_failure_mode_allow
    /\ r.state = "rejected"
    /\ r.reject_status = NGX_HTTP_REQUEST_ENTITY_TOO_LARGE
    /\ \E i \in 1..Len(bufs) : bufs[i].in_file

(***************************************************************************)
(* modules/config.rs: ModuleConfig::default and ModuleConfig::merge        *)
(***************************************************************************)
DefaultMaxBodySize  == 10 * 1024 * 1024
DefaultEppTimeoutMs == 200

\* a merge that inherits the numeric values of the enclosing level as they
\* are
ModuleConfig_merge_inherits_zero(self, prev) ==
    [self EXCEPT !.max_body_size = IF @ = 0 THEN prev.max_body_size ELSE @,
                 !.epp_timeout_ms = IF @ = 0 THEN prev.epp_timeout_ms ELSE @]

\* impl Merge for ModuleConfig: self is the enclosed level, prev the
\* enclosing one
ModuleConfig_merge(self, prev) ==
    [self EXCEPT
        !.bbr_enable = @ \/ prev.bbr_enable,
        !.epp_enable = @ \/ prev.epp_enable,
        !.default_upstream = IF @.some THEN @ ELSE prev.default_upstream,
        !.epp_endpoint = IF @.some THEN @ ELSE prev.epp_endpoint,
        !.max_body_size =
            IF @ = 0
            THEN IF prev.max_body_size = 0 THEN DefaultMaxBodySize
                 ELSE prev.max_body_size
            ELSE @,
        !.epp_timeout_ms =
            IF @ = 0
            THEN IF prev.epp_timeout_ms = 0 THEN DefaultEppTimeoutMs
                 ELSE prev.epp_timeout_ms
            ELSE @,
        !.bbr_header_name =
            IF @ = ""
            THEN IF prev.bbr_header_name = "" THEN DefaultBbrHeader
                 ELSE prev.bbr_header_name
            ELSE @,
        !.bbr_default_model =
            IF @ = ""
            THEN IF prev.bbr_default_model = "" THEN "unknown"
                 ELSE prev.bbr_default_model
            ELSE @,
        !.epp_header_name =
            IF @ = ""
            THEN IF prev.epp_header_name = "" THEN DefaultEppHeader
                 ELSE prev.epp_header_name
            ELSE @,
        !.epp_failure_mode_allow = @ \/ prev.epp_failure_mode_allow]

\* what the directives inference_epp_timeout_ms and inference_max_body_size
\* may leave at one level: 0 (as written, or unset) or a positive value
TimeoutSettings == {0, 1}
BodySizeSettings == {0, 5}

\* one level's configuration as the directives leave it
Level(base, t, m) == [base EXCEPT !.epp_timeout_ms = t, !.max_body_size = m]

\* the configurations of a location merged with its enclosing level
MergedConfs(base) ==
    {ModuleConfig_merge(Level(base, st, sm), Level(base, pt, pm)) :
        st \in TimeoutSettings, pt \in TimeoutSettings,
        sm \in BodySizeSettings, pm \in BodySizeSettings}

MergeScenarios ==
    {Scenario(c, s.bufs, s.headers, s.pre) :
        s \in BridgeScenarios, c \in UNION {MergedConfs(b.conf) : b \in BridgeScenarios}}

\* the EPP stage under every configuration a merge produces
InitMerge == InitFrom(MergeScenarios)
SpecMerge == InitMerge /\ [][Next]_vars

\* C38: after ModuleConfig::merge, epp_timeout_ms and max_body_size are
\* never 0: a 0 is replaced by the enclosing level's value, or by 200 ms and
\* 10 MiB when that is 0 too; a call dispatched under a merged configuration
\* has a positive budget, so the client never waits for the first response
\* without a time limit.
C38_MergedNeverZero ==
    /\ conf.epp_timeout_ms # 0
    /\ conf.max_body_size # 0
    /\ \A c \in CallIds :
          calls[c].pc # "idle" =>
             /\ calls[c].ctx.timeout_ms = conf.epp_timeout_ms
             /\ calls[c].ctx.timeout_ms # 0
    /\ \A st, pt \in TimeoutSettings \cup {conf.epp_timeout_ms} :
       \A sm, pm \in BodySizeSettings \cup {conf.max_body_size} :
          LET merged == ModuleConfig_merge(Level(conf, st, sm), Level(conf, pt, pm))
          IN  /\ merged.epp_timeout_ms =
                    IF st # 0 THEN st ELSE IF pt # 0 THEN pt ELSE DefaultEppTimeoutMs
              /\ merged.max_body_size =
                    IF sm # 0 THEN sm ELSE IF pm # 0 THEN pm ELSE DefaultMaxBodySize
              /\ merged.epp_timeout_ms # 0
              /\ merged.max_body_size # 0

\* a call dispatched under a configuration whose timeout and body ceiling
\* were 0 at both levels: its task waits for the first response under the
\* default budget
C38_Witness ==
    /\ conf.epp_timeout_ms = DefaultEppTimeoutMs
    /\ conf.max_body_size = DefaultMaxBodySize
    /\ \E c \in CallIds :
          /\ calls[c].pc = "wait_first"
          /\ calls[c].ctx.timeout_ms = DefaultEppTimeoutMs

(***************************************************************************)
(* Disk segments with an inverted range                                    *)
(***************************************************************************)
\* a buffer whose file range ends k bytes before it starts; bytes is what
\* the file holds from file_pos on
InvertedBuf(k, bytes) ==
    [mem |-> << >>, in_file |-> TRUE, file_pos |-> k, file_last |-> 0,
     fdata |-> bytes, fd_ok |-> TRUE]

Inverted(b) == b.in_file /\ b.file_last < b.file_pos

HasInverted(chain) == \E i \in 1..Len(chain) : Inverted(chain[i])

\* chains with an inverted segment, alone or after 1 or 3 bytes in memory,
\* and well-formed chains beside them
RangeChains ==
    { <<InvertedBuf(2, JsonModel)>>,
      <<MemBuf(Prefix(JsonModel, 1)), InvertedBuf(2, JsonModel)>>,
      <<MemBuf(Prefix(JsonModel, 3)), InvertedBuf(2, JsonModel)>>,
      <<FileBuf(JsonModel)>>,
      <<MemBuf(JsonModel)>> }

RangeScenarios ==
    { Scenario(ConfWith(TRUE, a, FALSE, None, FALSE, None, m, 1), b, << >>, pre) :
        a \in BOOLEAN, m \in CeilingChoices, b \in RangeChains, pre \in BOOLEAN }
    \cup
    { Scenario(ConfWith(FALSE, FALSE, TRUE, Some(EppEndpoint), a, None, m, 1),
               b, << >>, TRUE) :
        a \in BOOLEAN, m \in CeilingChoices, b \in RangeChains }

\* both stages, each alone, over bodies with inverted disk segments
InitRange == InitFrom(RangeScenarios)
SpecRange == InitRange /\ [][Next]_vars

\* the EPP collector alone rejects a chain with an inverted segment
C39_EppRejectsInverted ==
    HasInverted(bufs) =>
        /\ \A e \in hist.collected :
              e.stage = "epp" => ~e.ok /\ "extract" \in hist.epp_failures
        /\ ncalls = 0

\* C39: both body collectors reject a disk segment whose range is inverted
\* (file_last < file_pos) with an error: no length is computed from the
\* negative difference, so no ceiling check fires on such a length, the
\* running total does not overflow, and nothing is collected from the chain.
C39_InvertedRangeRejected ==
    HasInverted(bufs) =>
        /\ \A e \in hist.collected : ~e.ok
        /\ ~hist.bbr_too_large
        /\ ~hist.bbr_panicked
        /\ ~hist.extract_ran
        /\ ncalls = 0

====
